---- MODULE Spec2Model ----
(***************************************************************************)
(* Model of the finite state machine engine of fsm.go: the transition      *)
(* table and callback registry built by the constructor, the Event         *)
(* protocol with its four callback phases, the staged transition closure,  *)
(* the default transitioner, and the transition context handed to the      *)
(* callbacks (Cancel, SetAsync, Err, Async).                               *)
(*                                                                         *)
(* One client goroutine issues Event, Transition and State calls one after *)
(* the other.  A call is executed step by step: every callback invocation  *)
(* is a step of its own, so that what a callback observes (Current, the    *)
(* pending marker) and what it does to the context is part of the state.   *)
(*                                                                         *)
(* Spec is that machine with one caller.  SpecFake is the same machine     *)
(* with the transitioner replaced by one that fails and commits nothing.   *)
(* SpecConc shares the machine between several goroutines: it adds the     *)
(* event lock and the state lock, and a call takes and releases them in    *)
(* steps of its own, so that blocking and interleaving are part of the     *)
(* behaviours.                                                             *)
(***************************************************************************)
EXTENDS Integers, Sequences, FiniteSets, TLC

\* ---------------------------------------------------------------- bounds
MaxState == 3
MaxEvent == 3
MaxGoroutine == 2

StateType == 1..MaxState
EventType == 1..MaxEvent
Goroutines == 1..MaxGoroutine

\* ------------------------------------------------------- errors (values)
NilErr == "nil"
Canceled == "Canceled"
CustomErr == "E"

Result(kind, event, state, inner) ==
    [kind |-> kind, event |-> event, state |-> state, inner |-> inner]

RetNil == Result("nil", 0, 0, NilErr)

\* a plain error value (nil, Canceled or a callback's own error) as a result
Plain(err) == Result(err, 0, 0, NilErr)

InTransitionError(event) == Result("InTransition", event, 0, NilErr)
InvalidEventError(event, state) == Result("InvalidEvent", event, state, NilErr)
UnknownEventError(event) == Result("UnknownEvent", event, 0, NilErr)
NoTransitionError(err) == Result("NoTransition", 0, 0, err)
AsyncError(err) == Result("Async", 0, 0, err)
InternalError == Result("Internal", 0, 0, NilErr)
NotInTransitionError == Result("NotInTransition", 0, 0, NilErr)

\* ------------------------------------------------------ callback phases
callbackBeforeEvent == "before"
callbackLeaveState == "leave"
callbackEnterState == "enter"
callbackAfterEvent == "after"
Phases == {callbackBeforeEvent, callbackLeaveState, callbackEnterState, callbackAfterEvent}

\* an event definition; a callback field is TRUE when the definition
\* supplies a callback for that phase
EventTypeEvent(label, src, dst, mask) ==
    [Label |-> label, Src |-> src, Dst |-> dst,
     BeforeEvent |-> callbackBeforeEvent \in mask,
     LeaveState |-> callbackLeaveState \in mask,
     EnterState |-> callbackEnterState \in mask,
     AfterEvent |-> callbackAfterEvent \in mask]

\* the event lists given to the constructor
EventLists(mask) ==
    { \* open/close
      << EventTypeEvent(1, 1, 2, mask), EventTypeEvent(2, 2, 1, mask) >>,
      \* several sources, a self transition, callbacks on the first definition only
      << EventTypeEvent(1, 1, 2, mask), EventTypeEvent(1, 2, 2, {}),
         EventTypeEvent(2, 2, 3, {}), EventTypeEvent(2, 3, 1, {}) >>,
      \* the pair (1, 1) defined twice
      << EventTypeEvent(1, 1, 2, mask), EventTypeEvent(1, 1, 3, {}),
         EventTypeEvent(2, 3, 1, mask), EventTypeEvent(2, 2, 1, {}) >>,
      \* two events with the same source and destination, both with callbacks,
      \* and the first event from a second source
      << EventTypeEvent(1, 1, 2, mask), EventTypeEvent(2, 1, 2, mask),
         EventTypeEvent(1, 2, 1, {}) >> }

Masks == { {}, Phases,
           {callbackBeforeEvent, callbackEnterState},
           {callbackLeaveState, callbackAfterEvent} }

\* ------------------------------------------------------------ constructor
Put(m, k, v) == [x \in (DOMAIN m) \cup {k} |-> IF x = k THEN v ELSE m[x]]

EmptyMap == [x \in {} |-> 0]

\* the key of the transition table that the definition list[i] writes
eKey(list, i) == <<list[i].Label, list[i].Src>>

\* a constructor that keeps the first definition of a key
BuildTransitions_FirstWins(list, i, m) ==
    [k \in (DOMAIN m) \cup {eKey(list, j) : j \in i..Len(list)} |->
        IF k \in DOMAIN m THEN m[k]
        ELSE list[CHOOSE j \in i..Len(list) :
                    /\ eKey(list, j) = k
                    /\ \A h \in i..(j - 1) : eKey(list, h) # k].Dst]

\* the loop of the constructor over the definitions from the i-th on, for
\* the transition table (fsm.go 174-176)
RECURSIVE BuildTransitions(_, _, _)
BuildTransitions(list, i, m) ==
    IF i > Len(list) THEN m
    ELSE BuildTransitions(list, i + 1, Put(m, eKey(list, i), list[i].Dst))

\* a registration that keeps the callback a key already has
PutIf_KeepsFirst(m, cond, k, v) == IF cond /\ k \notin DOMAIN m THEN Put(m, k, v) ELSE m

PutIf(m, cond, k, v) == IF cond THEN Put(m, k, v) ELSE m

RECURSIVE BuildCallbacks(_, _, _)
BuildCallbacks(list, i, m) ==
    IF i > Len(list) THEN m
    ELSE LET e == list[i]
             m1 == PutIf(m, e.BeforeEvent, <<e.Label, callbackBeforeEvent>>, i)
             m2 == PutIf(m1, e.LeaveState, <<e.Src, callbackLeaveState>>, i)
             m3 == PutIf(m2, e.EnterState, <<e.Dst, callbackEnterState>>, i)
             m4 == PutIf(m3, e.AfterEvent, <<e.Label, callbackAfterEvent>>, i)
         IN BuildCallbacks(list, i + 1, m4)

VARIABLES
    events,       \* the event list the constructor was called with
    current,      \* f.current
    transitions,  \* f.transitions: (event, src) -> dst
    callbacks,    \* f.callbacks: cKey -> index of the definition that supplied the callback
    generic,      \* phases whose generic field (f.BeforeEvent, ...) is set
    transitionerObj, \* f.transitionerObj: which Transition implementation completes
    transition,   \* f.transition: << >> when nil, << dst >> for the staged closure
    t,            \* the cancelTransition of the call in progress or pending
    pc,           \* position of the call in progress, "idle" between calls
    mode,         \* the public operation in progress
    call,         \* what the call in progress (or the last one) was entered with
    ret,          \* what the last finished call returned
    log,          \* the callbacks invoked by the call in progress (or the last one)
    answer,       \* what the last query (Can, Cannot, AvailableTransitions) returned
    eventMu,      \* f.eventMu: 0 when free, else the goroutine that holds it
    stateMu,      \* f.stateMu: its writer, its read holds and the callers blocked in Lock()
    staged,       \* the cancelTransition the staged closure captured
    gs,           \* the goroutines that use the machine: where each one is in its call
    last          \* what the step just taken returned to its caller, if it was a return

\* the locks and the goroutines
conc == <<eventMu, stateMu, staged, gs, last>>

\* the bookkeeping of the single caller
seq == <<t, pc, mode, call, ret, log, answer>>

vars == <<current, events, transitions, callbacks, generic, transitionerObj, transition, conc, seq>>

NoCall == [op |-> "none", event |-> 0, src |-> 0, pending |-> FALSE, arg |-> 0]

cancelTransition(event, src, dst) ==
    [event |-> event, src |-> src, dst |-> dst, err |-> NilErr, async |-> FALSE]

\* ------------------------------------------------------------------ locks
\* sync.Mutex as f.eventMu uses it: Lock() returns only while nobody holds it,
\* the caller included
MutexCanLock_Reentrant(mu, g) == mu \in {0, g}

MutexCanLock_Never(mu, g) == TRUE

MutexCanLock(mu, g) == mu = 0

\* sync.RWMutex as f.stateMu uses it: a caller blocked in Lock() keeps new
\* readers out, and Lock() returns once no read hold is left
RWMutex == [writer |-> 0, readers |-> [g \in Goroutines |-> 0], waiting |-> {}]

\* an RWMutex whose read lock excludes other read holds
CanRLock_Exclusive(rw) ==
    /\ rw.writer = 0
    /\ rw.waiting = {}
    /\ \A g \in Goroutines : rw.readers[g] = 0

CanRLock(rw) == rw.writer = 0 /\ rw.waiting = {}

CanLock(rw) == rw.writer = 0 /\ \A g \in Goroutines : rw.readers[g] = 0

RLock(rw, g) == [rw EXCEPT !.readers[g] = @ + 1]

RUnlock(rw, g) == [rw EXCEPT !.readers[g] = @ - 1]

\* Lock() called: the caller waits for the read holds to go
LockCalled(rw, g) == [rw EXCEPT !.waiting = @ \cup {g}]

\* Lock() returned, the write was made and Unlock() was called
Unlocked(rw, g) == [rw EXCEPT !.waiting = @ \ {g}]

\* a goroutine that is not inside any call of the machine
Goroutine ==
    [pc |-> "idle", op |-> "none", t |-> cancelTransition(0, 0, 0),
     cb |-> "none", ran |-> FALSE, outer |-> 0, old |-> 0, dirty |-> FALSE]

\* what is kept of a call that returned
Reply(g, op, arg, r, v) == [g |-> g, op |-> op, arg |-> arg, ret |-> r, answer |-> v]
NoReturn == Reply(0, "none", 0, RetNil, << >>)

\* the implementations of the transitioner interface: the one the constructor
\* installs and the one the tests substitute
defaultTransitioner == "defaultTransitioner"
fakeTransitionerObj == "fakeTransitionerObj"

\* the machine as the constructor returns it
NewFSM ==
    /\ \E mask \in Masks : \E list \in EventLists(mask) :
          /\ events = list
          /\ transitions = BuildTransitions(list, 1, EmptyMap)
          /\ callbacks = BuildCallbacks(list, 1, EmptyMap)
    /\ generic \in Masks
    /\ current \in StateType
    /\ transition = << >>
    /\ t = cancelTransition(0, 0, 0)
    /\ pc = "idle"
    /\ mode = "none"
    /\ call = NoCall
    /\ ret = RetNil
    /\ log = << >>
    /\ answer = FALSE
    /\ eventMu = 0
    /\ stateMu = RWMutex
    /\ staged = cancelTransition(0, 0, 0)
    /\ gs = [g \in Goroutines |-> Goroutine]
    /\ last = NoReturn

Init ==
    /\ NewFSM
    /\ transitionerObj = defaultTransitioner

\* the machine after f.transitionerObj = new(fakeTransitionerObj)
InitFake ==
    /\ NewFSM
    /\ transitionerObj = fakeTransitionerObj

\* ------------------------------------------------------ what a callback does
\* a callback may call Cancel(), call SetAsync(), and returns nil or an error
Behaviours == [cancel : BOOLEAN, async : BOOLEAN, err : {NilErr, CustomErr}]

\* cancelTransition.cancel: the first error written stays
Cancel(c) == IF c.err # NilErr THEN c ELSE [c EXCEPT !.err = Canceled]

\* cancelTransition.SetAsync
SetAsync(c) == [c EXCEPT !.async = TRUE]

\* the context after a callback with behaviour b has run on it
RunCallback(c, b) ==
    LET c1 == IF b.cancel THEN Cancel(c) ELSE c
    IN IF b.async THEN SetAsync(c1) ELSE c1

\* Can looking at the table only
Can_IgnoresPending(event) == <<event, current>> \in DOMAIN transitions

\* Can(event), as a callback or the client would read it
Can(event) == <<event, current>> \in DOMAIN transitions /\ transition = << >>

\* the record of one callback invocation: which callback (for the callback of
\* an event or a state, the definition whose function the registry holds),
\* what Current() and Can() answer inside it, and what it did
Invocation(phase, specific, key, b) ==
    [phase |-> phase, specific |-> specific, key |-> key,
     def |-> IF specific THEN callbacks[<<key, phase>>] ELSE 0,
     cur |-> current, can |-> {e \in EventType : Can(e)},
     cancel |-> b.cancel, async |-> b.async, err |-> b.err]

Running == Result("running", 0, 0, NilErr)

\* a public call returns r to its caller
Return(r) ==
    /\ pc' = "idle"
    /\ mode' = "none"
    /\ ret' = r

Goto(label) ==
    /\ pc' = label
    /\ UNCHANGED <<mode, ret>>

\* ------------------------------------------------------------------ Event
\* EventBegin without the test for a pending transition
EventBegin_NoPendingCheck(event) ==
    /\ pc = "idle"
    /\ call' = [op |-> "Event", event |-> event, src |-> current,
                pending |-> transition # << >>, arg |-> 0]
    /\ log' = << >>
    /\ IF <<event, current>> \notin DOMAIN transitions
       THEN /\ Return(IF \E k \in DOMAIN transitions : k[1] = event
                      THEN InvalidEventError(event, current)
                      ELSE UnknownEventError(event))
            /\ UNCHANGED t
       ELSE /\ t' = cancelTransition(event, current, transitions[<<event, current>>])
            /\ pc' = "beforeSpec"
            /\ mode' = "Event"
            /\ ret' = Running
    /\ answer' = FALSE
    /\ UNCHANGED <<current, events, transitions, callbacks, generic, transitionerObj, conc, transition>>

\* EventBegin answering UnknownEvent for every event without an entry
EventBegin_AlwaysUnknown(event) ==
    /\ pc = "idle"
    /\ call' = [op |-> "Event", event |-> event, src |-> current,
                pending |-> transition # << >>, arg |-> 0]
    /\ log' = << >>
    /\ IF transition # << >>
       THEN /\ Return(InTransitionError(event))
            /\ UNCHANGED t
       ELSE IF <<event, current>> \notin DOMAIN transitions
       THEN /\ Return(UnknownEventError(event))
            /\ UNCHANGED t
       ELSE /\ t' = cancelTransition(event, current, transitions[<<event, current>>])
            /\ pc' = "beforeSpec"
            /\ mode' = "Event"
            /\ ret' = Running
    /\ answer' = FALSE
    /\ UNCHANGED <<current, events, transitions, callbacks, generic, transitionerObj, conc, transition>>

\* Event, from the locks to the creation of the context (fsm.go 263-288)
EventBegin(event) ==
    /\ pc = "idle"
    /\ call' = [op |-> "Event", event |-> event, src |-> current,
                pending |-> transition # << >>, arg |-> 0]
    /\ log' = << >>
    /\ IF transition # << >>
       THEN /\ Return(InTransitionError(event))
            /\ UNCHANGED t
       ELSE IF <<event, current>> \notin DOMAIN transitions
       THEN /\ Return(IF \E k \in DOMAIN transitions : k[1] = event
                      THEN InvalidEventError(event, current)
                      ELSE UnknownEventError(event))
            /\ UNCHANGED t
       ELSE /\ t' = cancelTransition(event, current, transitions[<<event, current>>])
            /\ pc' = "beforeSpec"
            /\ mode' = "Event"
            /\ ret' = Running
    /\ answer' = FALSE
    /\ UNCHANGED <<current, events, transitions, callbacks, generic, transitionerObj, conc, transition>>

\* BeforeDone without the test for a self transition
BeforeDone_NoSelfCheck ==
    /\ Goto("leaveSpec")
    /\ transition' = << t.dst >>

\* Event after the before-event phase returned nil (fsm.go 295-316): a self
\* transition goes to the after-event callbacks, any other one is staged
BeforeDone ==
    IF current = t.dst
    THEN /\ Goto("noopAfterSpec")
         /\ UNCHANGED transition
    ELSE /\ Goto("leaveSpec")
         /\ transition' = << t.dst >>

\* Event when the before-event phase returned err (fsm.go 291-293)
BeforeReturn(err) ==
    /\ Return(Plain(err))
    /\ UNCHANGED transition

\* BeforeEventSpecific without the test of the context's error
BeforeEventSpecific_NoErrCheck ==
    /\ pc = "beforeSpec"
    /\ IF <<t.event, callbackBeforeEvent>> \in DOMAIN callbacks
       THEN \E b \in Behaviours :
              LET t1 == RunCallback(t, b) IN
              /\ t' = t1
              /\ log' = Append(log, Invocation(callbackBeforeEvent, TRUE, t.event, b))
              /\ IF b.err # NilErr THEN BeforeReturn(b.err)
                 ELSE Goto("beforeGen") /\ UNCHANGED transition
       ELSE /\ Goto("beforeGen")
            /\ UNCHANGED <<t, log, transition>>
    /\ UNCHANGED <<current, events, transitions, callbacks, generic, transitionerObj, conc, answer, call>>

\* beforeEventCallbacks, the callback of the event (fsm.go 346-355)
BeforeEventSpecific ==
    /\ pc = "beforeSpec"
    /\ IF <<t.event, callbackBeforeEvent>> \in DOMAIN callbacks
       THEN \E b \in Behaviours :
              LET t1 == RunCallback(t, b) IN
              /\ t' = t1
              /\ log' = Append(log, Invocation(callbackBeforeEvent, TRUE, t.event, b))
              /\ IF b.err # NilErr THEN BeforeReturn(b.err)
                 ELSE IF t1.err # NilErr THEN BeforeReturn(t1.err)
                 ELSE Goto("beforeGen") /\ UNCHANGED transition
       ELSE /\ Goto("beforeGen")
            /\ UNCHANGED <<t, log, transition>>
    /\ UNCHANGED <<current, events, transitions, callbacks, generic, transitionerObj, conc, answer, call>>

\* beforeEventCallbacks, the callback of all events (fsm.go 356-365)
BeforeEventGeneric ==
    /\ pc = "beforeGen"
    /\ IF callbackBeforeEvent \in generic
       THEN \E b \in Behaviours :
              LET t1 == RunCallback(t, b) IN
              /\ t' = t1
              /\ log' = Append(log, Invocation(callbackBeforeEvent, FALSE, t.event, b))
              /\ IF b.err # NilErr THEN BeforeReturn(b.err)
                 ELSE IF t1.err # NilErr THEN BeforeReturn(t1.err)
                 ELSE BeforeDone
       ELSE /\ BeforeDone
            /\ UNCHANGED <<t, log>>
    /\ UNCHANGED <<current, events, transitions, callbacks, generic, transitionerObj, conc, answer, call>>

\* LeaveReturn that never clears the staged closure
LeaveReturn_KeepsStaged(err) ==
    /\ Return(err)
    /\ UNCHANGED transition

\* Event when the leave-state phase returned err (fsm.go 318-323)
LeaveReturn(err) ==
    /\ Return(err)
    /\ transition' = IF err = Plain(Canceled) THEN << >> ELSE transition

\* LeaveCheck testing the context once, after the last callback of the phase
LeaveCheck_AtPhaseEnd(b, t1, next) ==
    IF b.err # NilErr THEN LeaveReturn(Plain(b.err))
    ELSE IF next = "leaveGen" THEN Goto(next) /\ UNCHANGED transition
    ELSE IF t1.err # NilErr THEN LeaveReturn(Plain(t1.err))
    ELSE IF t1.async THEN LeaveReturn(AsyncError(t1.err))
    ELSE Goto(next) /\ UNCHANGED transition

\* LeaveCheck without the test of the async flag
LeaveCheck_IgnoresAsync(b, t1, next) ==
    IF b.err # NilErr THEN LeaveReturn(Plain(b.err))
    ELSE IF t1.err # NilErr THEN LeaveReturn(Plain(t1.err))
    ELSE Goto(next) /\ UNCHANGED transition

\* LeaveCheck looking at the context's error before the callback's own
LeaveCheck_CancelFirst(b, t1, next) ==
    IF t1.err # NilErr THEN LeaveReturn(Plain(t1.err))
    ELSE IF b.err # NilErr THEN LeaveReturn(Plain(b.err))
    ELSE IF t1.async THEN LeaveReturn(AsyncError(t1.err))
    ELSE Goto(next) /\ UNCHANGED transition

\* what leaveStateCallbacks does after one callback returned (fsm.go 372-379)
LeaveCheck(b, t1, next) ==
    IF b.err # NilErr THEN LeaveReturn(Plain(b.err))
    ELSE IF t1.err # NilErr THEN LeaveReturn(Plain(t1.err))
    ELSE IF t1.async THEN LeaveReturn(AsyncError(t1.err))
    ELSE Goto(next) /\ UNCHANGED transition

\* leaveStateCallbacks, the callback of the current state (fsm.go 371-380)
LeaveStateSpecific ==
    /\ pc = "leaveSpec"
    /\ IF <<current, callbackLeaveState>> \in DOMAIN callbacks
       THEN \E b \in Behaviours :
              LET t1 == RunCallback(t, b) IN
              /\ t' = t1
              /\ log' = Append(log, Invocation(callbackLeaveState, TRUE, current, b))
              /\ LeaveCheck(b, t1, "leaveGen")
       ELSE /\ Goto("leaveGen")
            /\ UNCHANGED <<t, log, transition>>
    /\ UNCHANGED <<current, events, transitions, callbacks, generic, transitionerObj, conc, answer, call>>

\* leaveStateCallbacks, the callback of all states (fsm.go 381-391); when it
\* returns nil Event calls the transitioner (fsm.go 326-327)
LeaveStateGeneric ==
    /\ pc = "leaveGen"
    /\ IF callbackLeaveState \in generic
       THEN \E b \in Behaviours :
              LET t1 == RunCallback(t, b) IN
              /\ t' = t1
              /\ log' = Append(log, Invocation(callbackLeaveState, FALSE, current, b))
              /\ LeaveCheck(b, t1, "transitioner")
       ELSE /\ Goto("transitioner")
            /\ UNCHANGED <<t, log, transition>>
    /\ UNCHANGED <<current, events, transitions, callbacks, generic, transitionerObj, conc, answer, call>>

\* ------------------------------------------------------------- Transition
\* Transition, the public call (fsm.go 337-341)
TransitionBegin ==
    /\ pc = "idle"
    /\ call' = [op |-> "Transition", event |-> 0, src |-> current,
                pending |-> transition # << >>, arg |-> 0]
    /\ log' = << >>
    /\ pc' = "transitioner"
    /\ mode' = "Transition"
    /\ ret' = Running
    /\ answer' = FALSE
    /\ UNCHANGED <<current, events, transitions, callbacks, generic, transitionerObj, conc, transition, t>>

\* DefaultTransition with the enter-state phase left out of the closure
DefaultTransition_SkipsEnter ==
    /\ pc = "transitioner"
    /\ IF transition = << >>
       THEN /\ Return(NotInTransitionError)
            /\ UNCHANGED current
       ELSE /\ current' = transition[1]
            /\ Goto("afterSpec")
    /\ UNCHANGED <<events, transitions, callbacks, generic, transitionerObj, conc, answer, transition, t, call, log>>

\* DefaultTransition with a closure that runs the callbacks without committing
DefaultTransition_NoCommit ==
    /\ pc = "transitioner"
    /\ IF transition = << >>
       THEN /\ Return(NotInTransitionError)
            /\ UNCHANGED current
       ELSE /\ UNCHANGED current
            /\ Goto("enterSpec")
    /\ UNCHANGED <<events, transitions, callbacks, generic, transitionerObj, conc, answer, transition, t, call, log>>

\* DefaultTransition returning nil when nothing is staged
DefaultTransition_NilOk ==
    /\ pc = "transitioner"
    /\ IF transition = << >>
       THEN /\ Return(RetNil)
            /\ UNCHANGED current
       ELSE /\ current' = transition[1]
            /\ Goto("enterSpec")
    /\ UNCHANGED <<events, transitions, callbacks, generic, transitionerObj, conc, answer, transition, t, call, log>>

\* defaultTransitioner.Transition up to the call of the staged closure, and
\* the closure's commit (part_002 57-60, fsm.go 305-307)
DefaultTransition ==
    /\ pc = "transitioner"
    /\ IF transition = << >>
       THEN /\ Return(NotInTransitionError)
            /\ UNCHANGED current
       ELSE /\ current' = transition[1]
            /\ Goto("enterSpec")
    /\ UNCHANGED <<events, transitions, callbacks, generic, transitionerObj, conc, answer, transition, t, call, log>>

\* ClosureReturn after which Event returns nil whatever the context holds
ClosureReturn_DropsContextErr(err, t1) ==
    /\ transition' = << >>
    /\ Return(RetNil)

\* ClosureReturn without clearing the marker
ClosureReturn_KeepsMarker(err, t1) ==
    /\ UNCHANGED transition
    /\ Return(IF mode = "Event" THEN Plain(t1.err) ELSE RetNil)

\* the staged closure returned err to defaultTransitioner.Transition, which
\* drops it, clears the marker and returns nil (part_002 60-63); Event then
\* returns the context's error (fsm.go 329-333), Transition returns nil
\* (fsm.go 340)
ClosureReturn(err, t1) ==
    /\ transition' = << >>
    /\ Return(IF mode = "Event" THEN Plain(t1.err) ELSE RetNil)

\* EnterStateSpecific putting the source state back when the callback fails
EnterStateSpecific_RollsBack ==
    /\ pc = "enterSpec"
    /\ IF <<current, callbackEnterState>> \in DOMAIN callbacks
       THEN \E b \in Behaviours :
              LET t1 == RunCallback(t, b) IN
              /\ t' = t1
              /\ log' = Append(log, Invocation(callbackEnterState, TRUE, current, b))
              /\ IF b.err # NilErr
                 THEN ClosureReturn(b.err, t1) /\ current' = t.src
                 ELSE Goto("enterGen") /\ UNCHANGED <<transition, current>>
       ELSE /\ Goto("enterGen")
            /\ UNCHANGED <<t, log, transition, current>>
    /\ UNCHANGED <<events, transitions, callbacks, generic, transitionerObj, conc, answer, call>>

\* enterStateCallbacks whose error does not end the closure
EnterStateSpecific_ErrContinues ==
    /\ pc = "enterSpec"
    /\ IF <<current, callbackEnterState>> \in DOMAIN callbacks
       THEN \E b \in Behaviours :
              LET t1 == RunCallback(t, b) IN
              /\ t' = t1
              /\ log' = Append(log, Invocation(callbackEnterState, TRUE, current, b))
              /\ IF FALSE THEN ClosureReturn(b.err, t1)
                 ELSE Goto("enterGen") /\ UNCHANGED transition
       ELSE /\ Goto("enterGen")
            /\ UNCHANGED <<t, log, transition>>
    /\ UNCHANGED <<current, events, transitions, callbacks, generic, transitionerObj, conc, answer, call>>

\* enterStateCallbacks, the callback of the current state (fsm.go 397-401)
EnterStateSpecific ==
    /\ pc = "enterSpec"
    /\ IF <<current, callbackEnterState>> \in DOMAIN callbacks
       THEN \E b \in Behaviours :
              LET t1 == RunCallback(t, b) IN
              /\ t' = t1
              /\ log' = Append(log, Invocation(callbackEnterState, TRUE, current, b))
              /\ IF b.err # NilErr THEN ClosureReturn(b.err, t1)
                 ELSE Goto("enterGen") /\ UNCHANGED transition
       ELSE /\ Goto("enterGen")
            /\ UNCHANGED <<t, log, transition>>
    /\ UNCHANGED <<current, events, transitions, callbacks, generic, transitionerObj, conc, answer, call>>

\* enterStateCallbacks, the callback of all states (fsm.go 402-407)
EnterStateGeneric ==
    /\ pc = "enterGen"
    /\ IF callbackEnterState \in generic
       THEN \E b \in Behaviours :
              LET t1 == RunCallback(t, b) IN
              /\ t' = t1
              /\ log' = Append(log, Invocation(callbackEnterState, FALSE, current, b))
              /\ IF b.err # NilErr THEN ClosureReturn(b.err, t1)
                 ELSE Goto("afterSpec") /\ UNCHANGED transition
       ELSE /\ Goto("afterSpec")
            /\ UNCHANGED <<t, log, transition>>
    /\ UNCHANGED <<current, events, transitions, callbacks, generic, transitionerObj, conc, answer, call>>

\* AfterReturn handing the error of a self transition back unwrapped
AfterReturn_Unwrapped(err, t1) ==
    IF pc \in {"noopAfterSpec", "noopAfterGen"}
    THEN /\ Return(Plain(IF err # NilErr THEN err ELSE t1.err))
         /\ UNCHANGED transition
    ELSE ClosureReturn(err, t1)

\* AfterReturn wrapping the context's error even when a callback failed
AfterReturn_ContextErrFirst(err, t1) ==
    IF pc \in {"noopAfterSpec", "noopAfterGen"}
    THEN /\ Return(NoTransitionError(IF t1.err # NilErr THEN t1.err ELSE err))
         /\ UNCHANGED transition
    ELSE ClosureReturn(err, t1)

\* afterEventCallbacks returned err: to Event for a self transition
\* (fsm.go 296-300), to the staged closure otherwise (fsm.go 312-315)
AfterReturn(err, t1) ==
    IF pc \in {"noopAfterSpec", "noopAfterGen"}
    THEN /\ Return(NoTransitionError(IF err # NilErr THEN err ELSE t1.err))
         /\ UNCHANGED transition
    ELSE ClosureReturn(err, t1)

\* afterEventCallbacks that goes on to the generic callback after an error
AfterEventSpecific_RunsGeneric ==
    /\ pc \in {"afterSpec", "noopAfterSpec"}
    /\ LET next == IF pc = "afterSpec" THEN "afterGen" ELSE "noopAfterGen" IN
       IF <<t.event, callbackAfterEvent>> \in DOMAIN callbacks
       THEN \E b \in Behaviours :
              LET t1 == RunCallback(t, b) IN
              /\ t' = t1
              /\ log' = Append(log, Invocation(callbackAfterEvent, TRUE, t.event, b))
              /\ IF FALSE THEN AfterReturn(b.err, t1)
                 ELSE Goto(next) /\ UNCHANGED transition
       ELSE /\ Goto(next)
            /\ UNCHANGED <<t, log, transition>>
    /\ UNCHANGED <<current, events, transitions, callbacks, generic, transitionerObj, conc, answer, call>>

\* afterEventCallbacks, the callback of the event (fsm.go 413-417)
AfterEventSpecific ==
    /\ pc \in {"afterSpec", "noopAfterSpec"}
    /\ LET next == IF pc = "afterSpec" THEN "afterGen" ELSE "noopAfterGen" IN
       IF <<t.event, callbackAfterEvent>> \in DOMAIN callbacks
       THEN \E b \in Behaviours :
              LET t1 == RunCallback(t, b) IN
              /\ t' = t1
              /\ log' = Append(log, Invocation(callbackAfterEvent, TRUE, t.event, b))
              /\ IF b.err # NilErr THEN AfterReturn(b.err, t1)
                 ELSE Goto(next) /\ UNCHANGED transition
       ELSE /\ Goto(next)
            /\ UNCHANGED <<t, log, transition>>
    /\ UNCHANGED <<current, events, transitions, callbacks, generic, transitionerObj, conc, answer, call>>

\* afterEventCallbacks, the callback of all events (fsm.go 418-423)
AfterEventGeneric ==
    /\ pc \in {"afterGen", "noopAfterGen"}
    /\ IF callbackAfterEvent \in generic
       THEN \E b \in Behaviours :
              LET t1 == RunCallback(t, b) IN
              /\ t' = t1
              /\ log' = Append(log, Invocation(callbackAfterEvent, FALSE, t.event, b))
              /\ AfterReturn(b.err, t1)
       ELSE /\ AfterReturn(NilErr, t)
            /\ UNCHANGED <<t, log>>
    /\ UNCHANGED <<current, events, transitions, callbacks, generic, transitionerObj, conc, answer, call>>

\* --------------------------------------------------- substituted transitioner
\* a substituted transitioner that runs the staged closure and then fails
FakeTransition_Commits ==
    /\ pc = "transitioner"
    /\ current' = IF transition = << >> THEN current ELSE transition[1]
    /\ Return(InternalError)
    /\ UNCHANGED <<events, transitions, callbacks, generic, transitionerObj, conc, answer, transition, t, call, log>>

\* fakeTransitionerObj.Transition (fsm_test.go 27-29), and what Event
\* (fsm.go 327-331) and Transition (fsm.go 340) return after it
FakeTransition ==
    /\ pc = "transitioner"
    /\ Return(InternalError)
    /\ UNCHANGED <<current, events, transitions, callbacks, generic, transitionerObj, conc, answer, transition, t, call, log>>

\* ------------------------------------------------------------------ State
\* State that refuses a state the table does not mention
State_OnlyKnown(state) ==
    /\ pc = "idle"
    /\ current' = IF \E k \in DOMAIN transitions : k[2] = state \/ transitions[k] = state
                  THEN state ELSE current
    /\ call' = [op |-> "State", event |-> 0, src |-> current,
                pending |-> transition # << >>, arg |-> state]
    /\ log' = << >>
    /\ Return(RetNil)
    /\ answer' = FALSE
    /\ UNCHANGED <<events, transitions, callbacks, generic, transitionerObj, conc, transition, t>>

\* State that drops a pending transition
State_ClearsPending(state) ==
    /\ pc = "idle"
    /\ current' = state
    /\ transition' = << >>
    /\ call' = [op |-> "State", event |-> 0, src |-> current,
                pending |-> transition # << >>, arg |-> state]
    /\ log' = << >>
    /\ Return(RetNil)
    /\ answer' = FALSE
    /\ UNCHANGED <<events, transitions, callbacks, generic, transitionerObj, conc, t>>

\* State (fsm.go 211-216)
State(state) ==
    /\ pc = "idle"
    /\ current' = state
    /\ call' = [op |-> "State", event |-> 0, src |-> current,
                pending |-> transition # << >>, arg |-> state]
    /\ log' = << >>
    /\ Return(RetNil)
    /\ answer' = FALSE
    /\ UNCHANGED <<events, transitions, callbacks, generic, transitionerObj, conc, transition, t>>

\* ---------------------------------------------------------------- queries
\* Cannot(event) (fsm.go 242-244)
Cannot(event) == ~Can(event)

\* the orders in which ranging over a Go map can visit the elements of S
Orderings(S) ==
    {q \in [1..Cardinality(S) -> S] : \A i, j \in 1..Cardinality(S) : i # j => q[i] # q[j]}

\* AvailableTransitions returning nothing while a transition is pending
AvailableTransitions_NoneWhilePending ==
    IF transition # << >> THEN {<< >>}
    ELSE Orderings({k[1] : k \in {x \in DOMAIN transitions : x[2] = current}})

\* AvailableTransitions(): the events of the table keys whose source is the
\* current state, in the order the map is ranged over (fsm.go 228-238)
AvailableTransitions ==
    Orderings({k[1] : k \in {x \in DOMAIN transitions : x[2] = current}})

\* a query made by the client between two calls
Query(op, event, value) ==
    /\ pc = "idle"
    /\ call' = [op |-> op, event |-> event, src |-> current,
                pending |-> transition # << >>, arg |-> 0]
    /\ answer' = value
    /\ log' = << >>
    /\ Return(RetNil)
    /\ UNCHANGED <<current, events, transitions, callbacks, generic, transitionerObj, conc, transition, t>>

\* the client calls Can(event) (fsm.go 219-224)
CanCall(event) == Query("Can", event, Can(event))

\* the client calls Cannot(event) (fsm.go 242-244)
CannotCall(event) == Query("Cannot", event, Cannot(event))

\* the client calls AvailableTransitions() (fsm.go 228-238)
AvailableTransitionsCall == \E q \in AvailableTransitions : Query("AvailableTransitions", 0, q)

Next ==
    \/ \E event \in EventType : EventBegin(event)
    \/ BeforeEventSpecific
    \/ BeforeEventGeneric
    \/ LeaveStateSpecific
    \/ LeaveStateGeneric
    \/ TransitionBegin
    \/ DefaultTransition
    \/ EnterStateSpecific
    \/ EnterStateGeneric
    \/ AfterEventSpecific
    \/ AfterEventGeneric
    \/ \E state \in StateType : State(state)
    \/ \E event \in EventType : CanCall(event)
    \/ \E event \in EventType : CannotCall(event)
    \/ AvailableTransitionsCall

Spec == Init /\ [][Next]_vars

\* the machine with the substituted transitioner: the staged closure is never
\* run, so the enter-state phase and the commit have no step
NextFake ==
    \/ \E event \in EventType : EventBegin(event)
    \/ BeforeEventSpecific
    \/ BeforeEventGeneric
    \/ LeaveStateSpecific
    \/ LeaveStateGeneric
    \/ TransitionBegin
    \/ FakeTransition
    \/ AfterEventSpecific
    \/ AfterEventGeneric
    \/ \E state \in StateType : State(state)
    \/ \E event \in EventType : CanCall(event)
    \/ \E event \in EventType : CannotCall(event)
    \/ AvailableTransitionsCall

SpecFake == InitFake /\ [][NextFake]_vars

\* ------------------------------------------------- several goroutines
\* the events and the states the table mentions: what the goroutines call the
\* machine with
TableEvents == {k[1] : k \in DOMAIN transitions}

TableStates ==
    {k[2] : k \in DOMAIN transitions} \cup {transitions[k] : k \in DOMAIN transitions}

\* the places of the protocol where a callback may be invoked
CallbackLocs ==
    {"beforeSpec", "beforeGen", "noopAfterSpec", "noopAfterGen", "leaveSpec",
     "leaveGen", "enterSpec", "enterGen", "afterSpec", "afterGen"}

\* the places between eventMu.Lock() and the return of Event or Transition
ProtocolLocs ==
    CallbackLocs \cup {"rlock", "runlock", "transitioner", "commit", "rlock2", "rlock2err"}

LocPhase(loc) ==
    CASE loc \in {"beforeSpec", "beforeGen"} -> callbackBeforeEvent
      [] loc \in {"leaveSpec", "leaveGen"} -> callbackLeaveState
      [] loc \in {"enterSpec", "enterGen"} -> callbackEnterState
      [] OTHER -> callbackAfterEvent

\* the keys the four callback functions look the callback of an event or a
\* state up with (fsm.go 346, 371, 397, 413); the state keys read f.current
\* at that moment. HasCallback: is a callback registered for the place
\* (fsm.go 346, 356, 371, 381, 397, 402, 413, 418)
CallbackKey(loc, c) ==
    CASE loc = "beforeSpec" -> <<c.event, callbackBeforeEvent>>
      [] loc = "leaveSpec" -> <<current, callbackLeaveState>>
      [] loc = "enterSpec" -> <<current, callbackEnterState>>
      [] OTHER -> <<c.event, callbackAfterEvent>>

HasCallback(loc, c) ==
    IF loc \in {"beforeSpec", "leaveSpec", "enterSpec", "afterSpec", "noopAfterSpec"}
    THEN CallbackKey(loc, c) \in DOMAIN callbacks
    ELSE LocPhase(loc) \in generic

GoTo(loc) == [kind |-> "goto", pc |-> loc, ret |-> RetNil, clear |-> FALSE]
Returns(r, clear) == [kind |-> "return", pc |-> "idle", ret |-> r, clear |-> clear]
Stages == [kind |-> "stage", pc |-> "leaveSpec", ret |-> RetNil, clear |-> FALSE]
ClosureEnds == [kind |-> "closureEnd", pc |-> "rlock2", ret |-> RetNil, clear |-> TRUE]

\* where the protocol goes after the place loc when nothing stops it
\* (fsm.go 290-316, 325-327 and the order inside the callback functions)
NextLoc(loc, c) ==
    CASE loc = "beforeSpec" -> GoTo("beforeGen")
      [] loc = "beforeGen" -> IF current = c.dst THEN GoTo("noopAfterSpec") ELSE Stages
      [] loc = "noopAfterSpec" -> GoTo("noopAfterGen")
      [] loc = "noopAfterGen" -> Returns(NoTransitionError(c.err), FALSE)
      [] loc = "leaveSpec" -> GoTo("leaveGen")
      [] loc = "leaveGen" -> GoTo("runlock")
      [] loc = "enterSpec" -> GoTo("enterGen")
      [] loc = "enterGen" -> GoTo("afterSpec")
      [] loc = "afterSpec" -> GoTo("afterGen")
      [] OTHER -> ClosureEnds

\* what follows a callback that ran at loc, left the context as c and
\* returned err (fsm.go 347-353, 370-377, 398-400, 414-416, 296-299, 318-323)
Outcome(loc, c, err) ==
    LET phase == LocPhase(loc) IN
    IF err # NilErr
    THEN CASE phase = callbackBeforeEvent -> Returns(Plain(err), FALSE)
           [] phase = callbackLeaveState -> Returns(Plain(err), err = Canceled)
           [] phase = callbackEnterState -> ClosureEnds
           [] OTHER -> IF loc \in {"noopAfterSpec", "noopAfterGen"}
                       THEN Returns(NoTransitionError(err), FALSE)
                       ELSE ClosureEnds
    ELSE IF phase \in {callbackBeforeEvent, callbackLeaveState} /\ c.err # NilErr
    THEN Returns(Plain(c.err), phase = callbackLeaveState /\ c.err = Canceled)
    ELSE IF phase = callbackLeaveState /\ c.async
    THEN Returns(AsyncError(c.err), FALSE)
    ELSE NextLoc(loc, c)

\* the call of g is at loc, outside any callback
At(g, loc) == gs[g].pc = loc /\ gs[g].cb = "none"

\* g returns r from its call: the deferred RUnlock() and eventMu.Unlock()
\* run, and the calls that were issued during this one see it gone
Returned(g, arg, r) ==
    /\ gs' = [h \in Goroutines |->
                IF h = g THEN Goroutine
                ELSE IF gs[h].outer = g THEN [gs[h] EXCEPT !.outer = 0]
                ELSE gs[h]]
    /\ last' = Reply(g, gs[g].op, arg, r, << >>)

ReleaseAll(rw, g) == [rw EXCEPT !.readers[g] = 0]

\* the call of g goes on as the outcome o says, its context being c
Proceed(g, c, o) ==
    /\ transition' = IF o.kind = "stage" THEN <<c.dst>>
                     ELSE IF o.clear THEN << >>
                     ELSE transition
    /\ staged' = IF transition' = << >> THEN cancelTransition(0, 0, 0) ELSE c
    /\ IF o.kind = "return" \/ (o.kind = "closureEnd" /\ gs[g].op = "Transition")
       THEN /\ Returned(g, c.event, o.ret)
            /\ eventMu' = 0
            /\ stateMu' = ReleaseAll(stateMu, g)
       ELSE /\ gs' = [gs EXCEPT ![g].pc = o.pc, ![g].cb = "none", ![g].t = c]
            /\ last' = NoReturn
            /\ UNCHANGED <<eventMu, stateMu>>
    /\ UNCHANGED <<current, events, transitions, callbacks, generic, transitionerObj, seq>>

\* the goroutine, if any, whose Event call is inside a before-event callback
OuterOf(g) ==
    LET inside == {h \in Goroutines \ {g} :
                      /\ gs[h].op = "Event"
                      /\ gs[h].pc \in {"beforeSpec", "beforeGen"}
                      /\ gs[h].cb = "running"} IN
    IF inside = {} THEN 0 ELSE CHOOSE h \in inside : TRUE

\* g calls Event and arrives at f.eventMu.Lock() (fsm.go 263-264); the
\* event it calls with is drawn where Event first reads it
GoEvent(g) ==
    /\ At(g, "idle")
    /\ gs' = [gs EXCEPT ![g] = [Goroutine EXCEPT !.pc = "lockEvent", !.op = "Event",
                                   !.outer = OuterOf(g),
                                   !.old = IF OuterOf(g) = 0 THEN 0 ELSE current]]
    /\ last' = NoReturn
    /\ UNCHANGED <<current, events, transitions, callbacks, generic, transitionerObj, transition,
                   eventMu, stateMu, staged, seq>>

\* g calls Transition() and arrives at f.eventMu.Lock() (fsm.go 337-338)
GoTransition(g) ==
    /\ At(g, "idle")
    /\ gs' = [gs EXCEPT ![g] = [Goroutine EXCEPT !.pc = "lockEvent", !.op = "Transition"]]
    /\ last' = NoReturn
    /\ UNCHANGED <<current, events, transitions, callbacks, generic, transitionerObj, transition,
                   eventMu, stateMu, staged, seq>>

\* Transition that does not take the event lock
EventLock_TransitionUnlocked(g) ==
    /\ gs[g].pc = "lockEvent" \/ gs[g].cb = "reenter"
    /\ MutexCanLock(eventMu, g) \/ (gs[g].pc = "lockEvent" /\ gs[g].op = "Transition")
    /\ eventMu' = g
    /\ gs' = IF gs[g].cb = "reenter"
             THEN [gs EXCEPT ![g].cb = "inner"]
             ELSE [gs EXCEPT ![g].pc = IF gs[g].op = "Event" THEN "rlock" ELSE "transitioner"]
    /\ last' = NoReturn
    /\ UNCHANGED <<current, events, transitions, callbacks, generic, transitionerObj, transition,
                   stateMu, staged, seq>>

\* f.eventMu.Lock() returns: in Event (fsm.go 264), in Transition (fsm.go
\* 338), or in one of them called from inside a callback
EventLock(g) ==
    /\ gs[g].pc = "lockEvent" \/ gs[g].cb = "reenter"
    /\ MutexCanLock(eventMu, g)
    /\ eventMu' = g
    /\ gs' = IF gs[g].cb = "reenter"
             THEN [gs EXCEPT ![g].cb = "inner"]
             ELSE [gs EXCEPT ![g].pc = IF gs[g].op = "Event" THEN "rlock" ELSE "transitioner"]
    /\ last' = NoReturn
    /\ UNCHANGED <<current, events, transitions, callbacks, generic, transitionerObj, transition,
                   stateMu, staged, seq>>

\* Event takes the read lock, tests f.transition and looks the event up
\* (fsm.go 267-288)
EventLookup(g, event) ==
    /\ At(g, "rlock")
    /\ CanRLock(stateMu)
    /\ LET key == <<event, current>> IN
       IF transition # << >>
       THEN /\ Returned(g, event, InTransitionError(event))
            /\ eventMu' = 0
            /\ UNCHANGED stateMu
       ELSE IF key \notin DOMAIN transitions
       THEN /\ Returned(g, event, IF \E k \in DOMAIN transitions : k[1] = event
                                   THEN InvalidEventError(event, current)
                                   ELSE UnknownEventError(event))
            /\ eventMu' = 0
            /\ UNCHANGED stateMu
       ELSE /\ gs' = [gs EXCEPT ![g].pc = "beforeSpec",
                                ![g].t = cancelTransition(event, current, transitions[key])]
            /\ stateMu' = RLock(stateMu, g)
            /\ last' = NoReturn
            /\ UNCHANGED eventMu
    /\ UNCHANGED <<current, events, transitions, callbacks, generic, transitionerObj, transition,
                   staged, seq>>

\* a registered callback is invoked (fsm.go 346-347, 356-357, 369-370, ...)
CallbackInvoke(g) ==
    /\ gs[g].pc \in CallbackLocs
    /\ gs[g].cb = "none"
    /\ HasCallback(gs[g].pc, gs[g].t)
    /\ gs' = [gs EXCEPT ![g].cb = "running", ![g].ran = TRUE]
    /\ last' = NoReturn
    /\ UNCHANGED <<current, events, transitions, callbacks, generic, transitionerObj, transition,
                   eventMu, stateMu, staged, seq>>

\* no callback is registered for this place
CallbackSkip(g) ==
    /\ gs[g].pc \in CallbackLocs
    /\ gs[g].cb = "none"
    /\ ~HasCallback(gs[g].pc, gs[g].t)
    /\ Proceed(g, gs[g].t, NextLoc(gs[g].pc, gs[g].t))

\* the callback returns, having done to the context what b says
CallbackReturn(g, b) ==
    /\ gs[g].cb = "running"
    /\ LET c == RunCallback(gs[g].t, b) IN
       Proceed(g, c, Outcome(gs[g].pc, c, b.err))

\* the callback calls Current(), Is() or Can(), which all begin at
\* f.stateMu.RLock() (fsm.go 197, 204, 220)
CallbackQuery(g) ==
    /\ gs[g].cb = "running"
    /\ gs' = [gs EXCEPT ![g].cb = "query"]
    /\ last' = NoReturn
    /\ UNCHANGED <<current, events, transitions, callbacks, generic, transitionerObj, transition,
                   eventMu, stateMu, staged, seq>>

\* the query of the callback takes the read lock, reads and releases it
CallbackQueryReturn(g) ==
    /\ gs[g].cb = "query"
    /\ CanRLock(stateMu)
    /\ gs' = [gs EXCEPT ![g].cb = "running"]
    /\ last' = NoReturn
    /\ UNCHANGED <<current, events, transitions, callbacks, generic, transitionerObj, transition,
                   eventMu, stateMu, staged, seq>>

\* the callback calls Event or Transition() on the machine and arrives at
\* f.eventMu.Lock() (fsm.go 264, 338)
CallbackReenter(g) ==
    /\ gs[g].cb = "running"
    /\ gs' = [gs EXCEPT ![g].cb = "reenter"]
    /\ last' = NoReturn
    /\ UNCHANGED <<current, events, transitions, callbacks, generic, transitionerObj, transition,
                   eventMu, stateMu, staged, seq>>

\* Event that keeps its read lock while the transitioner runs
EventRUnlock_KeepsReadLock(g) ==
    /\ At(g, "runlock")
    /\ gs' = [gs EXCEPT ![g].pc = "transitioner"]
    /\ last' = NoReturn
    /\ UNCHANGED <<current, events, transitions, callbacks, generic, transitionerObj, transition,
                   eventMu, stateMu, staged, seq>>

\* Event releases its read lock before it calls the transitioner (fsm.go 326)
EventRUnlock(g) ==
    /\ At(g, "runlock")
    /\ stateMu' = RUnlock(stateMu, g)
    /\ gs' = [gs EXCEPT ![g].pc = "transitioner"]
    /\ last' = NoReturn
    /\ UNCHANGED <<current, events, transitions, callbacks, generic, transitionerObj, transition,
                   eventMu, staged, seq>>

\* defaultTransitioner.Transition up to f.stateMu.Lock() in the staged
\* closure (part_002 57-61, fsm.go 304-305); the closure works on the
\* context it captured
TransitionerCall(g) ==
    /\ At(g, "transitioner")
    /\ IF transition = << >>
       THEN IF gs[g].op = "Transition"
            THEN /\ Returned(g, 0, NotInTransitionError)
                 /\ eventMu' = 0
                 /\ UNCHANGED stateMu
            ELSE /\ gs' = [gs EXCEPT ![g].pc = "rlock2err"]
                 /\ last' = NoReturn
                 /\ UNCHANGED <<eventMu, stateMu>>
       ELSE /\ gs' = [gs EXCEPT ![g].pc = "commit",
                                ![g].t = IF gs[g].op = "Transition" THEN staged ELSE @]
            /\ stateMu' = LockCalled(stateMu, g)
            /\ last' = NoReturn
            /\ UNCHANGED eventMu
    /\ UNCHANGED <<current, events, transitions, callbacks, generic, transitionerObj, transition,
                   staged, seq>>

\* the staged closure gets the write lock, sets f.current and unlocks
\* (fsm.go 305-307)
ClosureCommit(g) ==
    /\ At(g, "commit")
    /\ CanLock(stateMu)
    /\ current' = transition[1]
    /\ stateMu' = Unlocked(stateMu, g)
    /\ gs' = [gs EXCEPT ![g].pc = "enterSpec"]
    /\ last' = NoReturn
    /\ UNCHANGED <<events, transitions, callbacks, generic, transitionerObj, transition,
                   eventMu, staged, seq>>

\* Event takes its read lock again after the transitioner and returns
\* (fsm.go 328-333)
EventRLockAgain(g) ==
    /\ gs[g].pc \in {"rlock2", "rlock2err"}
    /\ gs[g].cb = "none"
    /\ CanRLock(stateMu)
    /\ Returned(g, gs[g].t.event, IF gs[g].pc = "rlock2err" THEN NotInTransitionError
                                   ELSE Plain(gs[g].t.err))
    /\ eventMu' = 0
    /\ UNCHANGED <<current, events, transitions, callbacks, generic, transitionerObj, transition,
                   stateMu, staged, seq>>

\* g calls State and arrives at f.stateMu.Lock() (fsm.go 211-212); the state
\* it calls with is drawn where State first reads it
GoState(g) ==
    /\ At(g, "idle")
    /\ gs' = [gs EXCEPT ![g] = [Goroutine EXCEPT !.pc = "stateLock", !.op = "State"]]
    /\ stateMu' = LockCalled(stateMu, g)
    /\ last' = NoReturn
    /\ UNCHANGED <<current, events, transitions, callbacks, generic, transitionerObj, transition,
                   eventMu, staged, seq>>

\* State gets the write lock, sets f.current and unlocks (fsm.go 212-215);
\* the calls in progress have had the state changed under them
StateWrite(g, state) ==
    /\ At(g, "stateLock")
    /\ CanLock(stateMu)
    /\ current' = state
    /\ stateMu' = Unlocked(stateMu, g)
    /\ gs' = [h \in Goroutines |->
                IF h = g THEN Goroutine
                ELSE IF gs[h].pc \in ProtocolLocs THEN [gs[h] EXCEPT !.dirty = TRUE]
                ELSE gs[h]]
    /\ last' = Reply(g, "State", state, RetNil, << >>)
    /\ UNCHANGED <<events, transitions, callbacks, generic, transitionerObj, transition,
                   eventMu, staged, seq>>

\* g calls Current() or Can() and arrives at f.stateMu.RLock() (fsm.go 197,
\* 220); the argument of Can is drawn where Can reads it
GoQuery(g, q) ==
    /\ At(g, "idle")
    /\ gs' = [gs EXCEPT ![g] = [Goroutine EXCEPT !.pc = "queryRLock", !.op = q]]
    /\ last' = NoReturn
    /\ UNCHANGED <<current, events, transitions, callbacks, generic, transitionerObj, transition,
                   eventMu, stateMu, staged, seq>>

\* the query takes the read lock, reads, unlocks and returns (fsm.go
\* 196-200, 219-224)
QueryReturn(g, arg) ==
    /\ At(g, "queryRLock")
    /\ CanRLock(stateMu)
    /\ gs[g].op = "Current" => arg = 0
    /\ gs[g].op = "Can" => arg \in TableEvents
    /\ gs' = [gs EXCEPT ![g] = Goroutine]
    /\ last' = Reply(g, gs[g].op, arg, RetNil,
                     IF gs[g].op = "Current" THEN <<current>> ELSE <<Can(arg)>>)
    /\ UNCHANGED <<current, events, transitions, callbacks, generic, transitionerObj, transition,
                   eventMu, stateMu, staged, seq>>

NextConc ==
    \/ \E g \in Goroutines : GoEvent(g)
    \/ \E g \in Goroutines : GoTransition(g)
    \/ \E g \in Goroutines : EventLock(g)
    \/ \E g \in Goroutines : \E event \in TableEvents : EventLookup(g, event)
    \/ \E g \in Goroutines : CallbackInvoke(g)
    \/ \E g \in Goroutines : CallbackSkip(g)
    \/ \E g \in Goroutines : \E b \in Behaviours : CallbackReturn(g, b)
    \/ \E g \in Goroutines : CallbackQuery(g)
    \/ \E g \in Goroutines : CallbackQueryReturn(g)
    \/ \E g \in Goroutines : CallbackReenter(g)
    \/ \E g \in Goroutines : EventRUnlock(g)
    \/ \E g \in Goroutines : TransitionerCall(g)
    \/ \E g \in Goroutines : ClosureCommit(g)
    \/ \E g \in Goroutines : EventRLockAgain(g)
    \/ \E g \in Goroutines : GoState(g)
    \/ \E g \in Goroutines : \E state \in TableStates : StateWrite(g, state)
    \/ \E g \in Goroutines : \E q \in {"Current", "Can"} : GoQuery(g, q)
    \/ \E g \in Goroutines : \E arg \in {0} \cup TableEvents : QueryReturn(g, arg)

\* the machines the goroutines share: the open/close machine with the
\* callbacks of all events and states only, and the machine with several
\* sources and a self transition with the callbacks of its first definition
\* only; both start in state 1
InitConc ==
    /\ NewFSM
    /\ transitionerObj = defaultTransitioner
    /\ \E mask \in {{}, Phases} : \E list \in EventLists(mask) :
          /\ \A i, j \in 1..Len(list) : eKey(list, i) = eKey(list, j) => i = j
          /\ Len(list) \in {2, 4}
          /\ (Len(list) = 2) <=> (mask = {})
          /\ events = list
          /\ transitions = BuildTransitions(list, 1, EmptyMap)
          /\ callbacks = BuildCallbacks(list, 1, EmptyMap)
          /\ generic = Phases \ mask
    /\ current = 1

SpecConc == InitConc /\ [][NextConc]_vars

TypeOK ==
    /\ current \in StateType
    /\ transition \in {<< >>} \cup {<<s>> : s \in StateType}
    /\ pc \in {"idle", "beforeSpec", "beforeGen", "noopAfterSpec", "noopAfterGen",
               "leaveSpec", "leaveGen", "transitioner", "enterSpec", "enterGen",
               "afterSpec", "afterGen"}
    /\ mode \in {"none", "Event", "Transition"}
    /\ Len(log) <= 8
    /\ transitionerObj \in {defaultTransitioner, fakeTransitionerObj}
    /\ eventMu \in {0} \cup Goroutines
    /\ stateMu.waiting \subseteq Goroutines
    /\ \A g \in Goroutines : stateMu.readers[g] \in {0, 1}

\* ----------------------------------------------------------- vocabulary
\* an Event call has returned and no other call was made since
EventReturned == pc = "idle" /\ call.op = "Event"

\* a Transition call has returned and no other call was made since
TransitionReturned == pc = "idle" /\ call.op = "Transition"

\* the last Event call was accepted: nothing was pending and the table had
\* an entry for the event in the state the call was made in
Accepted == ~call.pending /\ <<call.event, call.src>> \in DOMAIN transitions

\* the answer of Can for every event is the one the table gives for state
CanFrom(state) ==
    \A e \in EventType : Can(e) <=> <<e, state>> \in DOMAIN transitions

PhaseNo(phase) ==
    CASE phase = callbackBeforeEvent -> 1
      [] phase = callbackLeaveState -> 2
      [] phase = callbackEnterState -> 3
      [] phase = callbackAfterEvent -> 4

\* -------------------------------------------------------------------- C1
\* C1: an Event call made with nothing pending, for an event the table maps
\* from the current state s to another state d, in which no callback returns
\* an error, calls Cancel() or calls SetAsync(), returns nil, leaves the
\* current state at d and leaves nothing pending, so that Can (and the next
\* Event's lookup) answers from d.
C1_PlainEventMovesToDst ==
    (/\ EventReturned
     /\ Accepted
     /\ transitions[<<call.event, call.src>>] # call.src
     /\ \A i \in DOMAIN log :
           log[i].err = NilErr /\ ~log[i].cancel /\ ~log[i].async)
    => (/\ ret = RetNil
        /\ current = transitions[<<call.event, call.src>>]
        /\ transition = << >>
        /\ CanFrom(transitions[<<call.event, call.src>>]))

C1_Witness ==
    /\ EventReturned
    /\ Accepted
    /\ transitions[<<call.event, call.src>>] # call.src
    /\ Len(log) = 8
    /\ \A i \in DOMAIN log :
          log[i].err = NilErr /\ ~log[i].cancel /\ ~log[i].async
    /\ ret = RetNil
    /\ current # call.src

\* -------------------------------------------------------------------- C2
\* the callbacks registered for a transition by event from src to dst, in
\* the documented order
DocumentedOrder(event, src, dst) ==
    LET all == << [phase |-> callbackBeforeEvent, specific |-> TRUE, key |-> event],
                  [phase |-> callbackBeforeEvent, specific |-> FALSE, key |-> event],
                  [phase |-> callbackLeaveState, specific |-> TRUE, key |-> src],
                  [phase |-> callbackLeaveState, specific |-> FALSE, key |-> src],
                  [phase |-> callbackEnterState, specific |-> TRUE, key |-> dst],
                  [phase |-> callbackEnterState, specific |-> FALSE, key |-> dst],
                  [phase |-> callbackAfterEvent, specific |-> TRUE, key |-> event],
                  [phase |-> callbackAfterEvent, specific |-> FALSE, key |-> event] >>
        Registered(c) == IF c.specific THEN <<c.key, c.phase>> \in DOMAIN callbacks
                         ELSE c.phase \in generic
    IN SelectSeq(all, Registered)

\* the callbacks the call invoked, in the order of their invocation
Invoked == [i \in DOMAIN log |->
              [phase |-> log[i].phase, specific |-> log[i].specific, key |-> log[i].key]]

\* C2: a synchronous state-changing Event call in which every callback
\* returns nil invokes each registered callback exactly once, in the order
\* before-event specific, generic, leave-state specific, generic, enter-state
\* specific, generic, after-event specific, generic.
C2_CallbackOrder ==
    (/\ EventReturned
     /\ Accepted
     /\ current # call.src
     /\ \A i \in DOMAIN log : log[i].err = NilErr)
    => Invoked = DocumentedOrder(call.event, call.src, transitions[<<call.event, call.src>>])

C2_Witness ==
    /\ EventReturned
    /\ Accepted
    /\ current # call.src
    /\ \A i \in DOMAIN log : log[i].err = NilErr
    /\ Len(log) = 8
    /\ \E i \in DOMAIN log : log[i].cancel

\* -------------------------------------------------------------------- C3
\* C3: Current() read inside a before-event or leave-state callback is the
\* source state; read inside an enter-state or after-event callback of a
\* state-changing transition, run by Event or by Transition, it is the
\* destination state: the commit lies between the leave-state and the
\* enter-state phase.
C3_CommitBetweenLeaveAndEnter ==
    \A i \in DOMAIN log :
       /\ log[i].phase \in {callbackBeforeEvent, callbackLeaveState}
             => log[i].cur = t.src
       /\ (log[i].phase \in {callbackEnterState, callbackAfterEvent} /\ t.src # t.dst)
             => log[i].cur = t.dst

C3_Witness ==
    /\ TransitionReturned
    /\ t.src # t.dst
    /\ call.src # t.src
    /\ \E i \in DOMAIN log : log[i].phase = callbackEnterState /\ log[i].cur = t.dst
    /\ \E i \in DOMAIN log : log[i].phase = callbackAfterEvent /\ log[i].cur = t.dst

\* -------------------------------------------------------------------- C4
\* a leave-state callback of the call called SetAsync() and returned nil
AsyncInLeave(i) ==
    /\ log[i].phase = callbackLeaveState
    /\ log[i].async
    /\ log[i].err = NilErr

\* C4 as stated: a SetAsync() call in a leave-state callback that returns nil
\* makes Event return AsyncSuspended with the state at the source; the state
\* stays there until Transition() is called, and after Transition() returned
\* nil the state is the destination computed when the event was fired.
C4_AsStated ==
    [][ /\ ((EventReturned /\ \E i \in DOMAIN log : AsyncInLeave(i))
              => (ret = AsyncError(NilErr) /\ current = call.src
                  /\ transition = << t.dst >>))'
        /\ (pc = "idle" /\ transition # << >>) => current' = current
        /\ ((TransitionReturned /\ call.pending /\ ret = RetNil)
              => current = t.dst)' ]_vars

\* C4, amended: the same when the callback has not also called Cancel(),
\* and with State() as the one other call that moves the state while the
\* transition is pending.
C4_AsyncSuspends ==
    [][ /\ ((EventReturned
             /\ \E i \in DOMAIN log : AsyncInLeave(i) /\ ~log[i].cancel)
              => (ret = AsyncError(NilErr) /\ current = call.src
                  /\ transition = << t.dst >>))'
        /\ (pc = "idle" /\ transition # << >> /\ call'.op # "State")
              => current' = current
        /\ ((TransitionReturned /\ call.pending /\ ret = RetNil)
              => current = t.dst)' ]_vars

C4_Witness ==
    /\ EventReturned
    /\ \E i \in DOMAIN log : AsyncInLeave(i) /\ ~log[i].cancel /\ ~log[i].specific
    /\ ret = AsyncError(NilErr)
    /\ current = call.src
    /\ transition = << t.dst >>

\* -------------------------------------------------------------------- C5
\* C5: while a transition is pending Can is false for every event, and an
\* Event call, for any event, returns InTransition for that event without
\* running a callback and without changing the state or the pending
\* transition.
C5_PendingRejectsEvents ==
    /\ transition # << >> => \A e \in EventType : ~Can(e)
    /\ (EventReturned /\ call.pending)
         => (/\ ret = InTransitionError(call.event)
             /\ log = << >>
             /\ current = call.src
             /\ transition = << t.dst >>)

C5_Witness ==
    /\ EventReturned
    /\ call.pending
    /\ \A k \in DOMAIN transitions : k[1] # call.event
    /\ ret = InTransitionError(call.event)
    /\ transition # << >>

\* -------------------------------------------------------------------- C6
\* C6: a Cancel() call in a before-event or leave-state callback that
\* returns nil makes Event return Canceled, leaves the state at the source,
\* and no enter-state or after-event callback runs.
C6_CancelAborts ==
    (/\ EventReturned
     /\ \E i \in DOMAIN log :
           /\ log[i].phase \in {callbackBeforeEvent, callbackLeaveState}
           /\ log[i].cancel
           /\ log[i].err = NilErr)
    => (/\ ret = Plain(Canceled)
        /\ current = call.src
        /\ \A j \in DOMAIN log :
              log[j].phase \notin {callbackEnterState, callbackAfterEvent})

C6_Witness ==
    /\ EventReturned
    /\ \E i \in DOMAIN log :
          /\ log[i].phase = callbackBeforeEvent
          /\ log[i].specific
          /\ log[i].cancel
          /\ log[i].async
          /\ log[i].err = NilErr
    /\ ret = Plain(Canceled)
    /\ call.src # t.dst

\* -------------------------------------------------------------------- C7
\* Event returned Canceled after a Cancel() in the leave-state phase
CanceledInLeave ==
    /\ EventReturned
    /\ ret = Plain(Canceled)
    /\ \E i \in DOMAIN log : log[i].phase = callbackLeaveState /\ log[i].cancel

\* C7: after Event returned Canceled because of a Cancel() in the
\* leave-state phase the staged transition is cleared: nothing is pending,
\* Can answers from the table, a following Transition() returns
\* NotInTransition and a following Event is not rejected with InTransition.
C7_CancelClearsStaged ==
    [][ /\ (CanceledInLeave => (transition = << >> /\ CanFrom(current)))'
        /\ (CanceledInLeave /\ call'.op = "Event") => ret'.kind # "InTransition"
        /\ (CanceledInLeave /\ call'.op = "Transition") => ~call'.pending
        /\ (pc = "transitioner" /\ call.op = "Transition" /\ ~call.pending)
              => (pc' = "idle" /\ ret' = NotInTransitionError) ]_vars

C7_Witness ==
    /\ CanceledInLeave
    /\ transition = << >>
    /\ \E e \in EventType : Can(e)

\* -------------------------------------------------------------------- C8
\* C8: when a before-event or leave-state callback returns an error E, also
\* after calling Cancel(), Event returns exactly E, the state is unchanged
\* and no callback of a later phase runs.
C8_CallbackErrorReturned ==
    EventReturned =>
      \A i \in DOMAIN log :
         (log[i].phase \in {callbackBeforeEvent, callbackLeaveState}
          /\ log[i].err = CustomErr)
         => (/\ ret = Plain(CustomErr)
             /\ current = call.src
             /\ \A j \in DOMAIN log : PhaseNo(log[j].phase) <= PhaseNo(log[i].phase))

C8_Witness ==
    /\ EventReturned
    /\ \E i \in DOMAIN log :
          /\ log[i].phase = callbackLeaveState
          /\ log[i].cancel
          /\ log[i].err = CustomErr
    /\ ret = Plain(CustomErr)
    /\ current = call.src

\* -------------------------------------------------------------------- C9
\* C9: between calls a transition is pending exactly after an Event call
\* that returned AsyncSuspended and that Transition() has not completed:
\* after an Event that returned nil, Canceled, a callback's own error,
\* NoTransition, InvalidEvent or UnknownEvent nothing is pending, after one
\* that returned AsyncSuspended the transition is pending, and after
\* Transition() nothing is pending.
C9_PendingOnlyAfterAsync ==
    /\ (EventReturned /\ ret.kind \in {"nil", Canceled, CustomErr, "NoTransition",
                                       "InvalidEvent", "UnknownEvent"})
          => transition = << >>
    /\ (EventReturned /\ ret.kind = "Async") => transition # << >>
    /\ TransitionReturned => transition = << >>

\* ------------------------------------------------------------------- C10
\* C10: an error returned by an enter-state or after-event callback during a
\* synchronous state-changing Event call is returned to the caller of Event:
\* the call does not return nil.
C10_EnterAfterErrorReturned ==
    (/\ EventReturned
     /\ t.src # t.dst
     /\ \E i \in DOMAIN log :
           /\ log[i].phase \in {callbackEnterState, callbackAfterEvent}
           /\ log[i].err = CustomErr)
    => ret # RetNil

\* ------------------------------------------------------------------- C11
\* C11: an error returned by an enter-state or after-event callback while
\* Transition() finishes a pending transition is returned verbatim to the
\* caller of Transition().
C11_CompletionErrorReturned ==
    (/\ TransitionReturned
     /\ call.pending
     /\ \E i \in DOMAIN log : log[i].err = CustomErr)
    => ret = Plain(CustomErr)

\* ------------------------------------------------------------------- C12
\* an enter-state or after-event callback of a state-changing transition ran
PastLeave ==
    /\ t.src # t.dst
    /\ \E i \in DOMAIN log : log[i].phase \in {callbackEnterState, callbackAfterEvent}

\* C12: once the leave-state phase has passed the state change is final:
\* when an enter-state or after-event callback ran, also one that returned an
\* error, the state is the destination after the call; no step of the
\* protocol other than the commit changes the state; and an accepted
\* state-changing Event leaves the state at the source only when it ended in
\* the before-event or leave-state phase.
C12_CommitIsFinal ==
    [][ /\ (((EventReturned \/ TransitionReturned) /\ PastLeave) => current = t.dst)'
        /\ current' # current
              => ((pc = "transitioner" /\ current' = t.dst) \/ call'.op = "State")
        /\ ((EventReturned /\ Accepted /\ t.src # t.dst /\ current = call.src)
              => \A i \in DOMAIN log :
                    log[i].phase \in {callbackBeforeEvent, callbackLeaveState})' ]_vars

C12_Witness ==
    /\ EventReturned
    /\ t.src # t.dst
    /\ \E i \in DOMAIN log : log[i].phase = callbackEnterState /\ log[i].err = CustomErr
    /\ current = t.dst
    /\ current # call.src

\* ------------------------------------------------------------------- C13
\* C13: Transition() called with nothing pending returns NotInTransition,
\* every time, runs no callback and leaves the state unchanged.
C13_NotInTransition ==
    (TransitionReturned /\ ~call.pending)
    => (/\ ret = NotInTransitionError
        /\ log = << >>
        /\ current = call.src
        /\ transition = << >>)

C13_Witness ==
    /\ TransitionReturned
    /\ ~call.pending
    /\ ret = NotInTransitionError
    /\ t.event # 0
    /\ current = t.dst

\* ------------------------------------------------------------------- C14
\* Transition() has returned from completing a pending transition
Completed == TransitionReturned /\ call.pending

\* the registered enter-state and after-event callbacks of the transition in
\* the context, in the documented order
ClosureOrder ==
    LET late(c) == c.phase \in {callbackEnterState, callbackAfterEvent}
    IN SelectSeq(DocumentedOrder(t.event, t.src, t.dst), late)

\* what follows a completed Transition(): a second Transition() finds
\* nothing pending, an Event is looked up from the destination
AfterCompletion ==
    /\ (Completed /\ call'.op = "Transition") => ~call'.pending
    /\ (Completed /\ call'.op = "Event")
          => (call'.src = t.dst /\ ret'.kind # "InTransition")
    /\ (pc = "transitioner" /\ call.op = "Transition" /\ ~call.pending)
          => (pc' = "idle" /\ ret' = NotInTransitionError)

\* C14: Transition() called while a transition is pending commits the
\* destination, then runs the enter-state phase and then the after-event
\* phase (the registered callbacks in the documented order, every one of
\* them reading the destination as current state, up to the first one that
\* returns an error, after-event callbacks only after an enter-state phase
\* without error), then clears the marker in every case; a second
\* Transition() returns NotInTransition, Event and Can operate from the
\* destination.
C14_CompletionCommitsAndClears ==
    [][ /\ (Completed
              => (/\ current = t.dst
                  /\ \A i \in DOMAIN log : log[i].cur = t.dst
                  /\ Len(log) <= Len(ClosureOrder)
                  /\ Invoked = SubSeq(ClosureOrder, 1, Len(log))
                  /\ Len(log) < Len(ClosureOrder)
                        => (Len(log) > 0 /\ log[Len(log)].err = CustomErr)
                  /\ (\E i \in DOMAIN log : log[i].phase = callbackAfterEvent)
                        => \A i \in DOMAIN log :
                              log[i].phase = callbackEnterState => log[i].err = NilErr
                  /\ transition = << >>
                  /\ CanFrom(t.dst)))'
        /\ AfterCompletion ]_vars

C14_Witness ==
    /\ Completed
    /\ Len(log) = 4
    /\ current = t.dst
    /\ call.src = t.src
    /\ transition = << >>

\* ------------------------------------------------------------------- C15
\* C15: with nothing pending, Event(e) without a table entry for e and the
\* current state returns InvalidEvent, carrying e and the current state,
\* when the table has e from another state, and UnknownEvent when it has
\* not; no callback runs, the state is unchanged, nothing becomes pending.
C15_InvalidOrUnknown ==
    (/\ EventReturned
     /\ ~call.pending
     /\ <<call.event, call.src>> \notin DOMAIN transitions)
    => (/\ ret = IF \E s \in StateType : <<call.event, s>> \in DOMAIN transitions
                 THEN InvalidEventError(call.event, call.src)
                 ELSE UnknownEventError(call.event)
        /\ log = << >>
        /\ current = call.src
        /\ transition = << >>)

C15_Witness ==
    /\ EventReturned
    /\ ~call.pending
    /\ ret = InvalidEventError(call.event, call.src)
    /\ current = call.src
    /\ t.event # 0

\* ------------------------------------------------------------------- C16
\* the call in progress, or the last one, is an accepted Event whose table
\* destination is the state it was fired in
SelfCall ==
    /\ call.op = "Event"
    /\ Accepted
    /\ transitions[<<call.event, call.src>>] = call.src

\* C16: an Event call whose table destination equals the current state
\* never runs a leave-state or enter-state callback, never stages a pending
\* transition and leaves the state unchanged, at every point of the call.
C16_SelfTransitionStaysPut ==
    SelfCall
    => (/\ \A i \in DOMAIN log :
              log[i].phase \in {callbackBeforeEvent, callbackAfterEvent}
        /\ transition = << >>
        /\ current = call.src)

C16_Witness ==
    /\ EventReturned
    /\ SelfCall
    /\ callbackLeaveState \in generic
    /\ callbackEnterState \in generic
    /\ \E i \in DOMAIN log : log[i].phase = callbackAfterEvent
    /\ current = call.src

\* ------------------------------------------------------------------- C17
\* a before-event callback of the call returned an error or called Cancel()
BeforeAborted ==
    \E i \in DOMAIN log :
       /\ log[i].phase = callbackBeforeEvent
       /\ (log[i].err # NilErr \/ log[i].cancel)

\* C17 as stated: every accepted Event call whose table destination equals
\* the state it is fired in returns a NoTransition result, whatever the
\* registered callbacks do.
C17_AsStated ==
    (EventReturned /\ SelfCall) => ret.kind = "NoTransition"

\* C17, amended: it returns a NoTransition result unless a before-event
\* callback returned an error or called Cancel(); then Event returns that
\* error, or Canceled, unwrapped.
C17_SelfTransitionResult ==
    (EventReturned /\ SelfCall)
    => IF BeforeAborted
       THEN ret = Plain(IF log[Len(log)].err # NilErr THEN log[Len(log)].err ELSE Canceled)
       ELSE ret.kind = "NoTransition"

C17_Witness ==
    /\ EventReturned
    /\ SelfCall
    /\ ~BeforeAborted
    /\ \E i \in DOMAIN log : log[i].phase = callbackBeforeEvent /\ log[i].async
    /\ ret = NoTransitionError(NilErr)

\* ------------------------------------------------------------------- C18
\* the registered after-event callbacks of the call, specific then generic
AfterOrder ==
    LET after(c) == c.phase = callbackAfterEvent
    IN SelectSeq(DocumentedOrder(call.event, call.src, call.src), after)

\* the after-event callbacks the call invoked
AfterInvoked ==
    LET after(c) == c.phase = callbackAfterEvent
    IN SelectSeq(Invoked, after)

\* C18: for a self transition whose before-event phase passes, the
\* after-event callbacks run, specific then generic (up to the first that
\* returns an error), and the NoTransition result wraps the error an
\* after-event callback returned when there is one, otherwise the context's
\* error, which is nil unless Cancel() was called in the after-event phase.
C18_NoTransitionWraps ==
    (EventReturned /\ SelfCall /\ ~BeforeAborted)
    => LET failed == \E i \in DOMAIN log :
                        log[i].phase = callbackAfterEvent /\ log[i].err # NilErr
           canceled == \E i \in DOMAIN log :
                          log[i].phase = callbackAfterEvent /\ log[i].cancel
       IN /\ Len(AfterInvoked) <= Len(AfterOrder)
          /\ AfterInvoked = SubSeq(AfterOrder, 1, Len(AfterInvoked))
          /\ Len(AfterInvoked) < Len(AfterOrder) => failed
          /\ ret = NoTransitionError(IF failed THEN CustomErr
                                     ELSE IF canceled THEN Canceled ELSE NilErr)
          /\ t.err = (IF canceled THEN Canceled ELSE NilErr)

C18_Witness ==
    /\ EventReturned
    /\ SelfCall
    /\ ~BeforeAborted
    /\ Len(AfterInvoked) = 2
    /\ \E i \in DOMAIN log : log[i].phase = callbackAfterEvent /\ log[i].cancel
    /\ ret = NoTransitionError(Canceled)

\* ------------------------------------------------------------------- C19
\* a query has returned and no other call was made since
QueryReturned(op) == pc = "idle" /\ call.op = op

\* C19: Can(e) returns true exactly when the table has an entry for e and
\* the current state and no transition is pending, and Cannot(e) returns the
\* negation of Can(e).
C19_CanIffEntryAndNotPending ==
    /\ QueryReturned("Can")
          => (answer <=> (/\ <<call.event, current>> \in DOMAIN transitions
                          /\ transition = << >>))
    /\ QueryReturned("Cannot")
          => /\ answer <=> ~(/\ <<call.event, current>> \in DOMAIN transitions
                             /\ transition = << >>)
             /\ answer <=> ~Can(call.event)

C19_Witness ==
    /\ QueryReturned("Can")
    /\ <<call.event, current>> \in DOMAIN transitions
    /\ transition # << >>
    /\ answer = FALSE

\* ------------------------------------------------------------------- C20
\* C20: AvailableTransitions() returns exactly the events for which the
\* table has an entry from the current state, each once, whether or not a
\* transition is pending; with nothing pending an event is among them
\* exactly when Can is true for it.
C20_AvailableTransitions ==
    QueryReturned("AvailableTransitions")
    => (/\ {answer[i] : i \in DOMAIN answer}
              = {e \in EventType : <<e, current>> \in DOMAIN transitions}
        /\ \A i, j \in DOMAIN answer : i # j => answer[i] # answer[j]
        /\ transition = << >>
              => \A e \in EventType :
                    (\E i \in DOMAIN answer : answer[i] = e) <=> Can(e))

C20_Witness ==
    /\ QueryReturned("AvailableTransitions")
    /\ transition # << >>
    /\ Len(answer) = 2
    /\ answer[1] > answer[2]

\* ------------------------------------------------------------------- C21
StateReturned == pc = "idle" /\ call.op = "State"

\* C21: State(s) makes s the current state for every s, in the table or not,
\* runs no callback and leaves the staged transition as it was; the Event
\* fired next is looked up under the key (event, s): it is rejected with s as
\* the reported state when the table has no such key, and otherwise builds
\* its context from s to the table's destination for that key.
C21_StateSetsCurrent ==
    [][ /\ StateReturned' =>
              /\ current' = call'.arg
              /\ log' = << >>
              /\ ret' = RetNil
              /\ call'.pending = (transition' # << >>)
        /\ (StateReturned /\ call'.op = "Event" /\ transition = << >>) =>
              LET k == <<call'.event, call.arg>> IN
              /\ call'.src = call.arg
              /\ k \in DOMAIN transitions =>
                    /\ pc' = "beforeSpec"
                    /\ t'.src = call.arg
                    /\ t'.dst = transitions[k]
              /\ k \notin DOMAIN transitions =>
                    /\ pc' = "idle"
                    /\ ret' \in {InvalidEventError(call'.event, call.arg),
                                  UnknownEventError(call'.event)} ]_vars

C21_Witness ==
    /\ StateReturned
    /\ call.arg \notin TableStates
    /\ call.src \in TableStates
    /\ current = call.arg

\* ------------------------------------------------------------------- C29
\* The callback of one event or state returned a non-nil error at log[i].
SpecificFailed(i) == log[i].specific /\ log[i].err # NilErr

\* C29: in every phase, once the callback of the event or state has returned
\* a non-nil error, the callback of all events or states of that phase is not
\* invoked in that call.
C29_SpecificErrorSkipsGeneric ==
    \A i \in 1..Len(log) : SpecificFailed(i) =>
        \A j \in 1..Len(log) : ~(j > i /\ log[j].phase = log[i].phase /\ ~log[j].specific)

C29_Witness ==
    /\ pc = "idle"
    /\ Len(log) > 0
    /\ SpecificFailed(Len(log))
    /\ log[Len(log)].phase \in generic
    /\ log[Len(log)].phase = callbackAfterEvent
    /\ call.src # current

\* ------------------------------------------------------------------- C30
\* An enter-state callback returned a non-nil error at log[i].
EnterFailed(i) == log[i].phase = callbackEnterState /\ log[i].err # NilErr

\* C30: once an enter-state callback has returned a non-nil error, no
\* after-event callback is invoked in that call, whether the closure runs
\* inside Event or inside Transition().
C30_EnterErrorSkipsAfter ==
    \A i \in 1..Len(log) : EnterFailed(i) =>
        /\ i = Len(log)
        /\ \A j \in 1..Len(log) : log[j].phase # callbackAfterEvent
        /\ pc \notin {"afterSpec", "afterGen", "noopAfterSpec", "noopAfterGen"}

C30_Witness ==
    /\ TransitionReturned
    /\ Len(log) > 0
    /\ EnterFailed(Len(log))
    /\ callbackAfterEvent \in generic
    /\ <<t.event, callbackAfterEvent>> \in DOMAIN callbacks
    /\ current # call.src

\* ------------------------------------------------------------------- C27
\* C27: with a substituted transitioner that returns an error and commits
\* nothing, an Event call that reaches the transitioner returns that error
\* and the current state is still the state the event was fired from.
C27_CompleterErrorReturned ==
    [][ (pc = "transitioner" /\ mode = "Event") =>
            /\ EventReturned'
            /\ ret' = InternalError
            /\ current' = call.src
            /\ call' = call ]_vars

C27_Witness ==
    /\ EventReturned
    /\ ret = InternalError
    /\ current = call.src
    /\ <<call.event, call.src>> \in DOMAIN transitions
    /\ transitions[<<call.event, call.src>>] # call.src

\* ------------------------------------------------------------------- C22
\* the call of g is between f.eventMu.Lock() and its return
InProtocol(g) == gs[g].pc \in ProtocolLocs

\* C22: at most one Event or Transition() call is inside the protocol at a
\* time, so while a callback of one call runs no other call is at any place
\* of the protocol and the callbacks of two calls do not interleave.
C22_OneCallInside ==
    \A g, h \in Goroutines : (InProtocol(g) /\ InProtocol(h)) => g = h

C22_Witness ==
    \E g, h \in Goroutines :
        /\ gs[g].op = "Transition"
        /\ gs[g].cb = "running"
        /\ gs[h].op = "Event"
        /\ gs[h].pc = "lockEvent"

\* ------------------------------------------------------------------- C23
\* the step is the lookup of the Event call of g, made with this event
LookupWith(g, event) ==
    /\ At(g, "rlock")
    /\ gs'[g].pc # "rlock"
    /\ event = IF gs'[g].pc = "beforeSpec" THEN gs'[g].t.event ELSE last'.arg

\* C23: an Event call that another goroutine issues while an Event call is
\* inside a before-event callback stays at the event lock, with none of its
\* callbacks run, until that call has returned; it looks its event up in the
\* state the machine has then, and when the event has an entry for the state
\* of the time of issue and none for the state found, it returns an
\* InvalidEvent error without having run a callback.
C23_SecondEventWaits ==
    [][ \A g \in Goroutines :
          /\ gs[g].outer # 0 => (gs[g].pc = "lockEvent" /\ ~gs[g].ran)
          /\ gs'[g].outer # 0 => (gs'[g].pc = "lockEvent" /\ gs'[gs'[g].outer].pc \in ProtocolLocs)
          /\ \A event \in TableEvents :
                ( /\ LookupWith(g, event)
                  /\ gs[g].old # 0
                  /\ transition = << >>
                  /\ <<event, gs[g].old>> \in DOMAIN transitions
                  /\ <<event, current>> \notin DOMAIN transitions )
                => /\ last' = Reply(g, "Event", event, InvalidEventError(event, current), << >>)
                   /\ gs'[g] = Goroutine ]_vars

C23_Witness ==
    \E g \in Goroutines : \E event \in TableEvents :
        /\ At(g, "rlock")
        /\ gs[g].old # 0
        /\ gs[g].outer = 0
        /\ transition = << >>
        /\ <<event, gs[g].old>> \in DOMAIN transitions
        /\ <<event, current>> \notin DOMAIN transitions
        /\ current = transitions[<<event, gs[g].old>>]

\* ------------------------------------------------------------------- C24
\* a callback of g is inside Current(), Is() or Can()
QueryInCallback(g) == gs[g].cb = "query"

\* C24: while no other goroutine is inside a call of the machine, a query
\* made from a callback, at whatever place of the protocol the callback runs,
\* gets its read lock, so it returns.
C24_QueryInCallbackReturns ==
    \A g \in Goroutines :
        (QueryInCallback(g) /\ \A h \in Goroutines \ {g} : gs[h].pc = "idle")
            => CanRLock(stateMu)

C24_Witness ==
    \E g \in Goroutines :
        /\ QueryInCallback(g)
        /\ gs[g].pc = "leaveSpec"
        /\ stateMu.readers[g] = 1
        /\ \A h \in Goroutines \ {g} : gs[h].pc = "idle"

\* ------------------------------------------------------------------- C25
\* h is inside an Event call that moves the machine from one state to
\* another, and no State() call has written the state during it
ChangingEvent(h) ==
    /\ gs[h].op = "Event"
    /\ gs[h].pc \in ProtocolLocs \ {"rlock"}
    /\ gs[h].t.src # gs[h].t.dst
    /\ ~gs[h].dirty

\* a Current() call that waits for its read lock can get it, at once or
\* after the commit that waits for the write lock
CurrentCanReturn ==
    \A g \in Goroutines :
        (At(g, "queryRLock") /\ \A h \in Goroutines : gs[h].pc # "stateLock")
            => \/ CanRLock(stateMu)
               \/ CanLock(stateMu) /\ \E h \in stateMu.waiting : gs[h].pc = "commit"

\* C25: a Current() call of one goroutine made while an Event call of
\* another changes the state is never blocked for good, and it returns the
\* source state or the destination state of that Event call.
C25_CurrentDuringEvent ==
    [][ /\ CurrentCanReturn'
        /\ \A g, h \in Goroutines :
              ( /\ g # h
                /\ At(g, "queryRLock")
                /\ gs[g].op = "Current"
                /\ last'.g = g
                /\ ChangingEvent(h) )
              => /\ last'.answer = <<current>>
                 /\ current \in {gs[h].t.src, gs[h].t.dst} ]_vars

C25_Witness ==
    \E h \in Goroutines :
        /\ ChangingEvent(h)
        /\ gs[h].pc \in {"enterSpec", "enterGen", "afterSpec", "afterGen"}
        /\ last.op = "Current"
        /\ last.g # h
        /\ last.answer = <<gs[h].t.dst>>

\* ------------------------------------------------------------------- C26
\* a callback of g has called Event or Transition() on the machine
Reentered(g) == gs[g].cb = "reenter"

\* C26: a callback that calls Event or Transition() on the machine from the
\* goroutine of the call it runs in stays in f.eventMu.Lock() for ever: the
\* lock is held by its own call, which cannot return before the callback.
C26_ReentrantCallBlocks ==
    [][ \A g \in Goroutines :
          Reentered(g) => /\ Reentered(g)'
                          /\ gs'[g].pc = gs[g].pc
                          /\ eventMu = g
                          /\ eventMu' = g ]_vars

C26_Witness ==
    \E g \in Goroutines :
        /\ Reentered(g)
        /\ eventMu = g
        /\ gs[g].pc = "beforeSpec"

\* ------------------------------------------------------------------- C31
\* the last Event call was a state-changing one whose before-event and
\* leave-state callbacks all returned nil without calling Cancel()
LeaveEndedClean ==
    /\ EventReturned
    /\ Accepted
    /\ t.src # t.dst
    /\ \A i \in DOMAIN log :
          log[i].phase \in {callbackBeforeEvent, callbackLeaveState}
             => (log[i].err = NilErr /\ ~log[i].cancel)

\* one of its before-event or leave-state callbacks called SetAsync()
AsyncSetByLeaveEnd ==
    \E i \in DOMAIN log :
       /\ log[i].phase \in {callbackBeforeEvent, callbackLeaveState}
       /\ log[i].async

\* C31: whenever the async flag of the context is set when the leave-state
\* phase ends without a callback error and without a cancellation, whichever
\* earlier callback called SetAsync() and whether or not a leave-state
\* callback is registered, Event returns AsyncSuspended, leaves the state at
\* the source and leaves the transition pending.
C31_AsyncFlagSuspends ==
    (LeaveEndedClean /\ AsyncSetByLeaveEnd)
    => /\ ret = AsyncError(NilErr)
       /\ current = call.src
       /\ transition = << t.dst >>

\* the part of C31 that the code does: the same when a leave-state callback
\* is invoked after the flag was set
C31_AsyncSeenByLeaveCallback ==
    (/\ LeaveEndedClean
     /\ \E i, j \in DOMAIN log :
           /\ i <= j
           /\ log[i].async
           /\ log[j].phase = callbackLeaveState)
    => /\ ret = AsyncError(NilErr)
       /\ current = call.src
       /\ transition = << t.dst >>

\* ------------------------------------------------------------------- C32
\* the last Event call was a state-changing one, and one of its enter-state
\* or after-event callbacks called Cancel()
CanceledPastLeave ==
    /\ EventReturned
    /\ Accepted
    /\ t.src # t.dst
    /\ \E i \in DOMAIN log :
          /\ log[i].phase \in {callbackEnterState, callbackAfterEvent}
          /\ log[i].cancel

\* C32: Cancel() called from an enter-state or after-event callback of a
\* synchronous state-changing transition does not undo or block the commit:
\* after the call the state is the destination and nothing is pending, and
\* when no callback returned an error Event returns Canceled, the error left
\* in the context.
C32_LateCancelKeepsCommit ==
    CanceledPastLeave
    => /\ current = t.dst
       /\ transition = << >>
       /\ (\A i \in DOMAIN log : log[i].err = NilErr) => ret = Plain(Canceled)

C32_Witness ==
    /\ CanceledPastLeave
    /\ \A i \in DOMAIN log : log[i].err = NilErr
    /\ \E i \in DOMAIN log : log[i].phase = callbackEnterState /\ log[i].cancel
    /\ ret = Plain(Canceled)
    /\ current = t.dst
    /\ current # call.src

\* ------------------------------------------------------------------- C36
\* no later definition of the list has the (event, source) pair of the i-th
LastDefinition(i) ==
    \A j \in DOMAIN events : j > i => eKey(events, j) # eKey(events, i)

\* the list has two definitions with the same (event, source) pair
DuplicatePair ==
    \E i, j \in DOMAIN events : i < j /\ eKey(events, i) = eKey(events, j)

\* the table has the pairs of the list and maps each one to the destination
\* of its last definition
TableFromLast ==
    /\ DOMAIN transitions = {eKey(events, i) : i \in DOMAIN events}
    /\ \A i \in DOMAIN events :
          LastDefinition(i) => transitions[eKey(events, i)] = events[i].Dst

\* the Event call in progress looked up the destination of the last
\* definition of its pair
LookupFromLast ==
    (mode = "Event" /\ pc # "idle")
    => \E i \in DOMAIN events :
          /\ LastDefinition(i)
          /\ eKey(events, i) = <<t.event, t.src>>
          /\ t.dst = events[i].Dst

\* C36: when the event list given to the constructor has two definitions with
\* the same (event, source state), the table maps the pair to the destination
\* of the later one and every Event lookup uses that destination; no
\* operation changes the table afterwards.
C36_LaterDefinitionWins ==
    /\ [](TableFromLast /\ LookupFromLast)
    /\ [][transitions' = transitions]_vars

C36_Witness ==
    /\ DuplicatePair
    /\ EventReturned
    /\ Accepted
    /\ \E i, j \in DOMAIN events :
          /\ i < j
          /\ eKey(events, i) = <<call.event, call.src>>
          /\ eKey(events, j) = <<call.event, call.src>>
          /\ events[i].Dst # events[j].Dst
          /\ LastDefinition(j)
          /\ current = events[j].Dst
    /\ ret = RetNil

\* ------------------------------------------------------------------- C37
\* the definitions of the list that supply a callback of the phase for the
\* target: an event label for before-event and after-event, a source state
\* for leave-state, a destination state for enter-state
Suppliers(phase, target) ==
    {i \in DOMAIN events :
        CASE phase = callbackBeforeEvent ->
                events[i].BeforeEvent /\ events[i].Label = target
          [] phase = callbackLeaveState ->
                events[i].LeaveState /\ events[i].Src = target
          [] phase = callbackEnterState ->
                events[i].EnterState /\ events[i].Dst = target
          [] OTHER ->
                events[i].AfterEvent /\ events[i].Label = target}

\* what the transition in progress gives as the target of the phase
PhaseTarget(phase) ==
    CASE phase = callbackLeaveState -> t.src
      [] phase = callbackEnterState -> t.dst
      [] OTHER -> t.event

\* the place of the protocol where the callback of the event or state of a
\* phase is looked up
SpecificLocs == {"beforeSpec", "leaveSpec", "enterSpec", "afterSpec", "noopAfterSpec"}

\* a supplier of a callback that ran is not the definition of the transition
\* that was made, and an earlier definition supplied one for the same key
RanForOtherDefinition(i) ==
    /\ log[i].specific
    /\ events[log[i].def].Label # t.event
    /\ \E j \in Suppliers(log[i].phase, log[i].key) : j < log[i].def

\* C37: the callbacks of an event definition are keyed by state or event
\* label alone: whenever a transition reaches a phase, the callback invoked
\* for its event (before-event, after-event), its source (leave-state) or its
\* destination (enter-state) is the one some definition of the list supplied
\* for that label or state, whichever definition the transition itself comes
\* from; when several definitions supply one for the same key the callback of
\* the last of them is invoked, and when none does no callback of an event or
\* state is invoked.
C37_CallbacksKeyedByTarget ==
    [][ (pc \in SpecificLocs /\ pc' # pc)
        => LET phase == LocPhase(pc)
               from == Suppliers(phase, PhaseTarget(phase))
           IN IF from = {}
              THEN log' = log
              ELSE /\ Len(log') = Len(log) + 1
                   /\ log'[Len(log')].specific
                   /\ log'[Len(log')].phase = phase
                   /\ log'[Len(log')].def \in from
                   /\ \A j \in from : j <= log'[Len(log')].def ]_vars

C37_Witness ==
    /\ EventReturned
    /\ ret = RetNil
    /\ \E i \in DOMAIN log : log[i].phase = callbackLeaveState /\ RanForOtherDefinition(i)
    /\ \E i \in DOMAIN log : log[i].phase = callbackEnterState /\ RanForOtherDefinition(i)

\* ------------------------------------------------------------------- C38
\* the i-th callback of the call was the callback of the event in the
\* before-event phase or of the state in the leave-state phase, and it
\* returned nil after Cancel(), or after SetAsync() in the leave-state phase
StoppedByContext(i) ==
    /\ log[i].specific
    /\ log[i].phase \in {callbackBeforeEvent, callbackLeaveState}
    /\ log[i].err = NilErr
    /\ log[i].cancel \/ (log[i].phase = callbackLeaveState /\ log[i].async)

\* C38: when the callback of the event in the before-event phase, or of the
\* state in the leave-state phase, calls Cancel() and returns nil, or the one
\* of the leave-state phase calls SetAsync() and returns nil, the callback of
\* all events or states of that phase is not invoked: the context is tested
\* after each callback, not once at the end of the phase.
C38_ContextTestedAfterEachCallback ==
    \A i \in DOMAIN log :
       StoppedByContext(i)
       => /\ i = Len(log)
          /\ pc = "idle"
          /\ ret = IF log[i].cancel THEN Plain(Canceled) ELSE AsyncError(NilErr)

C38_Witness ==
    /\ EventReturned
    /\ callbackLeaveState \in generic
    /\ callbackBeforeEvent \in generic
    /\ \E i \in DOMAIN log :
          /\ StoppedByContext(i)
          /\ log[i].phase = callbackLeaveState
          /\ log[i].async
          /\ ~log[i].cancel
    /\ ret = AsyncError(NilErr)

\* ------------------------------------------------------------------- C39
\* C39: during a state-changing transition, Can(e) called from a leave-state,
\* enter-state or after-event callback is false for every event e, the
\* transition being staged already, and Can(e) called from a before-event
\* callback is true exactly for the events the table has from the source
\* state.
C39_CanInsideCallbacks ==
    \A i \in DOMAIN log :
       t.src # t.dst
       => log[i].can = IF log[i].phase = callbackBeforeEvent
                       THEN {e \in EventType : <<e, t.src>> \in DOMAIN transitions}
                       ELSE {}

C39_Witness ==
    /\ EventReturned
    /\ t.src # t.dst
    /\ \A phase \in Phases : \E i \in DOMAIN log : log[i].phase = phase
    /\ \E i \in DOMAIN log :
          /\ log[i].phase = callbackBeforeEvent
          /\ Cardinality(log[i].can) = 2
    /\ \A i \in DOMAIN log : log[i].phase # callbackBeforeEvent => log[i].can = {}

\* ------------------------------------------------------------------- C40
\* C40: State(s) called while a transition is pending makes s the current
\* state and leaves the transition pending: Can stays false for every event
\* and an Event call is still rejected with InTransition; a following
\* Transition() makes the destination that was computed when the event was
\* fired the current state, whatever s was.
C40_StateWhilePending ==
    [][ /\ (pc = "idle" /\ transition # << >> /\ call'.op = "State")
            => /\ current' = call'.arg
               /\ transition' = transition
               /\ transition' = << t'.dst >>
               /\ t'.dst = transitions[<<t'.event, t'.src>>]
               /\ \A e \in EventType : ~Can(e)'
        /\ (pc = "idle" /\ transition # << >> /\ call'.op = "Event")
            => /\ pc' = "idle"
               /\ ret' = InTransitionError(call'.event)
               /\ transition' = transition
               /\ current' = current
        /\ (pc = "idle" /\ transition # << >> /\ call'.op = "Transition")
            => /\ pc' = "transitioner"
               /\ transition' = << t'.dst >>
        /\ (pc = "transitioner" /\ transition # << >>)
            => /\ t' = t
               /\ current' = t.dst ]_vars

\* State(s) was called while the transition was pending, with s neither its
\* source nor its destination, and Transition() has returned since
C40_Witness ==
    /\ TransitionReturned
    /\ call.pending
    /\ call.src \notin {t.src, t.dst}
    /\ current = t.dst
    /\ transition = << >>

\* ------------------------------------------------------------------- C34
\* a before-event or leave-state callback of g's Event call has called
\* Current(), Is() or Can() and is at the RLock() of that call
ReentrantRead(g) ==
    /\ gs[g].cb = "query"
    /\ gs[g].pc \in {"beforeSpec", "beforeGen", "leaveSpec", "leaveGen"}

\* the reentrant read of g waits for a caller of Lock(), and that caller
\* waits for the read hold that g's Event call keeps until the callback
\* returns
WaitsForItself(g) ==
    /\ ReentrantRead(g)
    /\ stateMu.readers[g] > 0
    /\ stateMu.waiting # {}

\* C34: a Current(), Is() or Can() call made from a before-event or
\* leave-state callback returns also when another goroutine is calling
\* State(): the writer that waits for the state lock does not block the
\* reentrant read forever.
C34_ReentrantReadReturns ==
    \A g \in Goroutines : ~WaitsForItself(g)

\* once the reentrant read waits for itself it does so in every later state
C34_BlockedForever ==
    [][\A g \in Goroutines : WaitsForItself(g) => WaitsForItself(g)']_vars

\* ------------------------------------------------------------------- C35
\* C35: the enter-state callback of a state that is invoked for a transition
\* is always the one registered for the destination of that transition (and
\* none is invoked when none is registered for it), also when another
\* goroutine calls State() between the commit and the enter-state phase.
C35_EnterCallbackOfDestination ==
    [][ \A g \in Goroutines :
          (At(g, "enterSpec") /\ ~At(g, "enterSpec")')
          => LET dst == <<gs[g].t.dst, callbackEnterState>> IN
             IF gs'[g].pc = "enterSpec" /\ gs'[g].cb = "running"
             THEN CallbackKey("enterSpec", gs[g].t) = dst
             ELSE dst \notin DOMAIN callbacks ]_vars

\* ------------------------------------------------------------------- C33
\* the call of g is at a statement that reads or writes f.transition: Event
\* and Transition() from eventMu.Lock() on (fsm.go 270, 304, 320, part_002
\* 58-62), and Can (fsm.go 223)
TouchesTransition(g) ==
    \/ gs[g].pc \in ProtocolLocs
    \/ gs[g].pc = "queryRLock" /\ gs[g].op = "Can"

\* the call of g is at a statement that reads f.current: Current, Is and Can
\* (fsm.go 199, 206, 222), Event (fsm.go 274-295), leaveStateCallbacks
\* (fsm.go 371) and enterStateCallbacks (fsm.go 397)
ReadsCurrent(g) ==
    \/ gs[g].pc = "queryRLock"
    \/ gs[g].cb = "query"
    \/ At(g, "rlock")
    \/ At(g, "beforeGen")
    \/ At(g, "leaveSpec")
    \/ At(g, "enterSpec")

\* the call of g is at a statement that writes f.current: State (fsm.go 214)
\* and the staged closure (fsm.go 306)
WritesCurrent(g) == gs[g].pc \in {"stateLock", "commit"}

\* g holds a read lock of f.stateMu, or is at the RLock() that comes right
\* before the read (fsm.go 197, 204, 220, 267)
UnderReadLock(g) ==
    \/ stateMu.readers[g] > 0
    \/ gs[g].pc \in {"queryRLock", "rlock"}
    \/ gs[g].cb = "query"

\* g is in the Lock() that comes right before the write (fsm.go 212, 305)
UnderWriteLock(g) == g \in stateMu.waiting

C33_MarkerUnderEventLock ==
    \A g \in Goroutines : TouchesTransition(g) => eventMu = g

C33_CurrentUnderStateLock ==
    \A g \in Goroutines :
       /\ ReadsCurrent(g) => UnderReadLock(g)
       /\ WritesCurrent(g) => UnderWriteLock(g)

\* C33: every read and write of the pending-transition marker is made by a
\* goroutine that holds the event lock, and every read and write of the
\* current state is made under the state lock (the read lock for a read, the
\* write lock for a write), in every public operation, Can() and the lookup
\* of the enter-state callback included.
C33_LockDiscipline ==
    /\ C33_MarkerUnderEventLock
    /\ C33_CurrentUnderStateLock

\* Can is about to read f.transition while the Event call of another
\* goroutine, which holds the event lock, is about to assign it
C33_CanRacesWithEvent ==
    \E g, h \in Goroutines :
       /\ g # h
       /\ At(g, "queryRLock") /\ gs[g].op = "Can"
       /\ CanRLock(stateMu)
       /\ eventMu = h
       /\ gs[h].pc = "beforeGen" /\ gs[h].cb = "running"
       /\ current # gs[h].t.dst

\* enterStateCallbacks is about to read f.current while State() of another
\* goroutine is about to assign it
C33_EnterRacesWithState ==
    \E g, h \in Goroutines :
       /\ g # h
       /\ At(g, "enterSpec")
       /\ At(h, "stateLock")
       /\ CanLock(stateMu)

====
